---- MODULE Spec2Model ----
(***************************************************************************)
(* Model of ExcelHandler (src/excel_functions.py): a worksheet held in     *)
(* memory, its persisted copy, the coordinate- and header-addressed        *)
(* operations on it, and the JSON dispatcher process_json_operation.       *)
(*                                                                         *)
(* The worksheet is the openpyxl cell dictionary: a function from the      *)
(* coordinates <<row, column>> of the cells that exist to their values. A  *)
(* cell that exists may hold None; max_row and max_column are taken over   *)
(* the cells that exist, whatever they hold.                               *)
(***************************************************************************)
EXTENDS Integers, Sequences, FiniteSets, TLC

VARIABLES
    cells,      \* self.sheet: the in-memory worksheet
    disk,       \* the workbook file as last saved
    call,       \* the last call made on the handler and what it returned
    prev,       \* the call that returned before it, where a caller keeps it
    peer        \* self.sheet of a second handler constructed on the same file

vars == <<cells, disk, call, prev, peer>>

----------------------------------------------------------------------------
(* Bounds of the model *)

MaxRow == 2     \* rows and columns the inputs address, and the sheet may
MaxCol == 2     \* grow to, where every operation and the file are modelled
TallRows == 3   \* rows where rows shift and are looked up (MaxCol columns)
WideCols == 3   \* columns where columns shift (MaxRow rows)
MaxValues == 4  \* values a sheet of TallRows rows and WideCols columns holds

----------------------------------------------------------------------------
(* Python values.  A value is a record of its type and its str().  Two     *)
(* values are == in Python exactly when the records are equal: the int 5   *)
(* and the str "5" have the same str() and are not equal.                  *)

NoneV == [t |-> "none", v |-> "None"]
StrV(s) == [t |-> "str", v |-> s]
IntV(s) == [t |-> "int", v |-> s]
DictV == [t |-> "dict", v |-> "{}"]

Str(x) == x.v

\* openpyxl's Cell.value setter accepts numbers, strings and None and raises
\* ValueError ("Cannot convert ... to Excel") for a list or a mapping.
Storable(x) == x.t \in {"none", "str", "int"}

(* Row and column references.  An int carries its number, a str carries    *)
(* its characters, a bool carries the number it is equal to (True == 1,    *)
(* False == 0), and "other" stands for the values isinstance finds to be   *)
(* neither an int nor a str (a float, null, a list, a mapping).  To the    *)
(* handler a bool is an int: isinstance(True, int) holds and True > 0.     *)
(* What the handler passes on to openpyxl is the bool itself, and there    *)
(* the row True is not the row 1: see sheet_cell and read_row.             *)

IntRef(k) == [t |-> "int", n |-> k, s |-> <<>>]
StrRef(chars) == [t |-> "str", n |-> 0, s |-> chars]
OtherRef == [t |-> "other", n |-> 0, s |-> <<>>]
BoolRef(b) == [t |-> "bool", n |-> IF b THEN 1 ELSE 0, s |-> <<>>]

\* isinstance(x, int)
isinstance_int(x) == x.t \in {"int", "bool"}

NextAvailable == StrRef(<<"n","e","x","t","_","a","v","a","i","l","a","b","l","e">>)

Digits == <<"0","1","2","3","4","5","6","7","8","9">>
UpperCase == <<"A","B","C","D","E","F","G","H","I","J","K","L","M",
               "N","O","P","Q","R","S","T","U","V","W","X","Y","Z">>
LowerCase == <<"a","b","c","d","e","f","g","h","i","j","k","l","m",
               "n","o","p","q","r","s","t","u","v","w","x","y","z">>

Range(seq) == {seq[i] : i \in 1..Len(seq)}
IndexOf(seq, x) == CHOOSE i \in 1..Len(seq) : seq[i] = x

Max(S) == CHOOSE x \in S : \A y \in S : y <= x
Min(S) == CHOOSE x \in S : \A y \in S : x <= y

(* Characters.  A character of ASCII is written as itself, a character     *)
(* outside ASCII as its code point:                                        *)
(*   "U+0663" (Arabic-Indic three) and "U+FF11" (fullwidth one) are        *)
(*            decimal digits: isdigit() holds and int() reads them;        *)
(*   "U+00B2" (superscript two) is a digit that is no decimal: isdigit()   *)
(*            holds and int() raises ValueError;                           *)
(*   "U+00E9" (e acute), "U+00C9" (E acute), "U+00DF" (sharp s) and        *)
(*            "U+0131" (dotless i) are letters: isalpha() holds, and       *)
(*            upper() gives "U+00C9", "U+00C9", "SS" and "I".              *)

\* str.isdecimal() of one character
isdecimal(ch) == ch \in Range(Digits) \cup {"U+0663", "U+FF11"}

\* the digit a decimal character denotes
digit_value(ch) ==
    IF ch = "U+0663" THEN 3 ELSE IF ch = "U+FF11" THEN 1 ELSE IndexOf(Digits, ch) - 1

\* str.isdigit(): non-empty and every character a digit, decimal or not
isdigit(chars) ==
    Len(chars) > 0 /\ \A i \in 1..Len(chars) : isdecimal(chars[i]) \/ chars[i] = "U+00B2"

\* str.isalpha() of one character
isalpha(ch) ==
    ch \in Range(UpperCase) \cup Range(LowerCase)
              \cup {"U+00E9", "U+00C9", "U+00DF", "U+0131"}

\* str.upper(): character by character, and the sharp s becomes two
RECURSIVE upper(_)
upper(chars) ==
    IF Len(chars) = 0 THEN <<>>
    ELSE LET ch == Head(chars)
         IN  (IF ch \in Range(LowerCase) THEN <<UpperCase[IndexOf(LowerCase, ch)]>>
              ELSE IF ch = "U+00DF" THEN <<"S", "S">>
              ELSE IF ch = "U+0131" THEN <<"I">>
              ELSE IF ch = "U+00E9" THEN <<"U+00C9">>
              ELSE <<ch>>) \o upper(Tail(chars))

\* int() of a string of these characters raises ValueError when the string
\* is empty or a character of it is no decimal
int_raises(chars) == Len(chars) = 0 \/ \E i \in 1..Len(chars) : ~isdecimal(chars[i])

\* int() of a string of these characters
int(chars) ==
    IF int_raises(chars) THEN "ValueError"
    ELSE LET value[k \in 0..Len(chars)] ==
                 IF k = 0 THEN 0 ELSE 10 * value[k - 1] + digit_value(chars[k])
         IN  value[Len(chars)]

NoneIdx == 0    \* a None index result; every index found is at least 1

\* openpyxl.utils.column_index_from_string: one to three letters A-Z read as
\* a bijective base-26 numeral; anything else raises ValueError (NoneIdx here).
\* a positional base-26 numeral, A for the digit 0
RECURSIVE Base26_positional(_)
Base26_positional(chars) ==
    IF Len(chars) = 0 THEN 0
    ELSE 26 * Base26_positional(SubSeq(chars, 1, Len(chars) - 1))
         + (IndexOf(UpperCase, chars[Len(chars)]) - 1)

RECURSIVE Base26(_)
Base26(chars) ==
    IF Len(chars) = 0 THEN 0
    ELSE 26 * Base26(SubSeq(chars, 1, Len(chars) - 1))
         + IndexOf(UpperCase, chars[Len(chars)])

column_index_from_string(chars) ==
    IF Len(chars) \in 1..3 /\ \A i \in 1..Len(chars) : chars[i] \in Range(UpperCase)
    THEN Base26(chars)
    ELSE NoneIdx

get_col_index(col_index) ==
    IF isinstance_int(col_index)
    THEN IF col_index.n <= 0 THEN NoneIdx ELSE col_index.n
    ELSE IF col_index.t = "str"
    THEN IF isdigit(col_index.s)
         THEN IF int_raises(col_index.s)
              THEN \* the ValueError lands in the except clause of line 108
                   NoneIdx
              ELSE IF int(col_index.s) <= 0 THEN NoneIdx ELSE int(col_index.s)
         ELSE column_index_from_string(upper(col_index.s))
    ELSE NoneIdx

\* _validate_row_index raises ValueError: int(row_index) at line 126 is
\* outside any try block of its own
validate_row_index_raises(row_index) ==
    row_index.t = "str" /\ isdigit(row_index.s) /\ int_raises(row_index.s)

validate_row_index(row_index) ==
    IF validate_row_index_raises(row_index) THEN "ValueError"
    ELSE IF row_index = NextAvailable THEN TRUE
    ELSE LET r == IF row_index.t = "str" /\ isdigit(row_index.s)
                  THEN IntRef(int(row_index.s)) ELSE row_index
         IN  isinstance_int(r) /\ r.n > 0

----------------------------------------------------------------------------
(* The worksheet (openpyxl Worksheet) *)

(* What the cell dictionary holds at a coordinate is the value of the cell *)
(* there, and for a cell of row 1 it may be one of two things more.  A     *)
(* cell created by Worksheet.cell(row=True, ...) has True for its row      *)
(* attribute and is stored under the key (True, column); that key is equal *)
(* to (1, column), so the cell is the cell of row 1 to every later lookup, *)
(* and the dictionary keeps the key for as long as the entry is there,     *)
(* also when _move_cell puts another cell under it.  RowTrue(v) is a cell  *)
(* holding v whose row attribute and key are True; KeyTrue(v) is a cell    *)
(* holding v whose row attribute is an int and whose key is True.          *)

KeyTrue(v) == [t |-> "key True", v |-> v]
RowTrue(v) == [t |-> "row True", v |-> v]

has_true_key(e) == e.t \in {"key True", "row True"}
has_true_row(e) == e.t = "row True"

\* Cell.value
value(e) == IF has_true_key(e) THEN e.v ELSE e

\* Cell.value = v: the cell stays the cell it is
with_value(e, v) == IF has_true_key(e) THEN [e EXCEPT !.v = v] ELSE v

EmptySheet == [p \in {} |-> NoneV]

Rows(ws) == {p[1] : p \in DOMAIN ws}
Cols(ws) == {p[2] : p \in DOMAIN ws}

max_row(ws) == IF DOMAIN ws = {} THEN 1 ELSE Max(Rows(ws))
max_column(ws) == IF DOMAIN ws = {} THEN 1 ELSE Max(Cols(ws))
min_row(ws) == IF DOMAIN ws = {} THEN 1 ELSE Min(Rows(ws))
min_column(ws) == IF DOMAIN ws = {} THEN 1 ELSE Min(Cols(ws))

\* The value at a coordinate, None where no cell exists
ValueAt(ws, r, c) == IF <<r, c>> \in DOMAIN ws THEN value(ws[<<r, c>>]) ELSE NoneV

\* Worksheet.cell(row, column) for row, column >= 1: the cell is created,
\* holding None, when it does not exist
ws_cell(ws, r, c) ==
    [p \in DOMAIN ws \cup {<<r, c>>} |-> IF p \in DOMAIN ws THEN ws[p] ELSE NoneV]

\* Worksheet.cell(row, column) for the row the caller passed, an int or True:
\* the cell created for the row True gets True for its row and for its key
sheet_cell(ws, row, c) ==
    IF row.t = "bool" /\ <<row.n, c>> \notin DOMAIN ws
    THEN [p \in DOMAIN ws \cup {<<row.n, c>>} |->
             IF p \in DOMAIN ws THEN ws[p] ELSE RowTrue(NoneV)]
    ELSE ws_cell(ws, row.n, c)

\* sheet.cell(row, column).value = v, for a value the cell accepts
set_value_anchor(ws, r, c, v) ==
    [p \in DOMAIN ws \cup {<<r, c>>, <<1, 1>>} |->
        IF p = <<r, c>> \/ p = <<1, 1>> THEN v ELSE ws[p]]

set_value(ws, r, c, v) ==
    [p \in DOMAIN ws \cup {<<r, c>>} |->
        IF p # <<r, c>> THEN ws[p]
        ELSE IF p \in DOMAIN ws THEN with_value(ws[p], v) ELSE v]

\* iter_rows / iter_cols create every cell of the block they walk
Fill(ws, rs, cs) ==
    [p \in DOMAIN ws \cup (rs \X cs) |-> IF p \in DOMAIN ws THEN ws[p] ELSE NoneV]

\* ws[row]: the cells of one row, columns 1..max_column
sheet_row(ws, r) == Fill(ws, {r}, 1..max_column(ws))
\* ws[col_letter]: the cells of one column, rows 1..max_row
sheet_col(ws, c) == Fill(ws, 1..max_row(ws), {c})

RowValues(ws, r) == [c \in 1..max_column(ws) |-> ValueAt(ws, r, c)]
ColValues(ws, c) == [r \in 1..max_row(ws) |-> ValueAt(ws, r, c)]

\* Worksheet._move_cell: the cell e is put under the coordinate p of the
\* dictionary f with its row and column set to the integers of p; where a
\* cell that does not move is under p already, the dictionary keeps its key
move_cell(f, kept, p, e) ==
    IF p \in kept /\ has_true_key(f[p]) THEN KeyTrue(value(e)) ELSE value(e)

\* Worksheet._move_cells for rows: the rows from min_r on are made contiguous
\* and every cell of them moves by offset, overwriting what is there
move_rows(ws, min_r, offset) ==
    LET f == Fill(ws, min_r..max_row(ws), 1..max_column(ws))
        moved == {p \in DOMAIN f : p[1] >= min_r}
        kept == DOMAIN f \ moved
        landed == {<<p[1] + offset, p[2]>> : p \in moved}
    IN  [p \in kept \cup landed |->
            IF p \in landed THEN move_cell(f, kept, p, f[<<p[1] - offset, p[2]>>])
            ELSE f[p]]

move_cols(ws, min_c, offset) ==
    LET f == Fill(ws, 1..max_row(ws), min_c..max_column(ws))
        moved == {p \in DOMAIN f : p[2] >= min_c}
        kept == DOMAIN f \ moved
        landed == {<<p[1], p[2] + offset>> : p \in moved}
    IN  [p \in kept \cup landed |->
            IF p \in landed THEN move_cell(f, kept, p, f[<<p[1], p[2] - offset>>])
            ELSE f[p]]

\* an insert_rows that moves no row
insert_rows_in_place(ws, idx) == ws

insert_rows(ws, idx) == move_rows(ws, idx, 1)

\* delete_rows(idx, amount=1): the rows below move up, then the gutter (the
\* rows no moved cell overwrote) is deleted
delete_rows(ws, idx) ==
    LET mr == max_row(ws)
        gutter == Max({mr, idx}) .. Min({idx + 1, mr})
        m == move_rows(ws, idx + 1, -1)
        gone == gutter \X (min_column(m)..max_column(m))
    IN  [p \in DOMAIN m \ gone |-> m[p]]

\* a delete_cols that empties the column and moves nothing
delete_cols_blank(ws, idx) ==
    [p \in DOMAIN ws |-> IF p[2] = idx THEN NoneV ELSE ws[p]]

delete_cols(ws, idx) ==
    LET mc == max_column(ws)
        gutter == Max({mc, idx}) .. Min({idx + 1, mc})
        m == move_cols(ws, idx + 1, -1)
        gone == (min_row(m)..max_row(m)) \X gutter
    IN  [p \in DOMAIN m \ gone |-> m[p]]

(* Workbook.save.  A cell holding None is not written, so the file holds   *)
(* the cells that hold a value.  A row element takes its number from the   *)
(* key of the first cell of the row and a cell element takes its reference *)
(* from the row attribute of the cell, so the file may hold the row "True" *)
(* (KeyTrue at the first coordinate of row 1, with the value written there *)
(* or None) and cells of the row "True" (RowTrue).                         *)
Save(ws) ==
    LET row1 == {p[2] : p \in {q \in DOMAIN ws : q[1] = 1}}
        first == IF row1 = {} THEN <<1, 1>> ELSE <<1, Min(row1)>>
        row_True(p) == p = first /\ has_true_key(ws[p])
        cell_True(p) == has_true_row(ws[p]) /\ value(ws[p]) # NoneV
    IN  [p \in {q \in DOMAIN ws : value(ws[q]) # NoneV \/ row_True(q)} |->
            IF cell_True(p) THEN RowTrue(value(ws[p]))
            ELSE IF row_True(p) THEN KeyTrue(value(ws[p]))
            ELSE value(ws[p])]

\* load_workbook raises ValueError on a file that holds the row "True"
load_workbook_raises(dk) == \E p \in DOMAIN dk : has_true_key(dk[p])

\* ExcelHandler(filename) on a file that exists: the workbook is loaded, or
\* a new one is created when loading raised, and it is saved
ExcelHandler(dk) ==
    LET wb == IF load_workbook_raises(dk) THEN EmptySheet ELSE dk
    IN  [ws |-> wb, dk |-> Save(wb)]

----------------------------------------------------------------------------
(* ExcelHandler methods.  Each is an operator from the worksheet, the file *)
(* and the arguments to the pair the method returns (ret, msg) and the     *)
(* worksheet and file it leaves (ws, dk).  A message is the sequence of    *)
(* its parts: the literal text it starts with, then what is formatted in.  *)
(* An exception raised inside a method's try block lands in its except     *)
(* clause: the method returns its "Error ..." pair and the worksheet stays *)
(* as the statements executed so far left it.                              *)

Bool(b) == [k |-> "bool", x |-> b]
NoneRet == [k |-> "none", x |-> FALSE]
ListRet(seq) == [k |-> "list", x |-> seq]
ValRet(v) == [k |-> "val", x |-> v]
IdxRet(i) == [k |-> "idx", x |-> i]

Res(ret, msg, ws, dk) == [ret |-> ret, msg |-> msg, ws |-> ws, dk |-> dk]

\* a _get_actual_row_index that resolves the sentinel to the row it resolved
\* to when the handler was constructed on a missing file
get_actual_row_index_cached(ws, row_index) ==
    IF row_index = NextAvailable THEN max_row(EmptySheet) + 1
    ELSE IF row_index.t = "str" /\ isdigit(row_index.s) THEN int(row_index.s)
    ELSE row_index.n

\* _get_actual_row_index of a validated row_index
get_actual_row_index(ws, row_index) ==
    IF row_index = NextAvailable THEN max_row(ws) + 1
    ELSE IF row_index.t = "str" /\ isdigit(row_index.s) THEN int(row_index.s)
    ELSE row_index.n

\* a clear_sheet that deletes the rows below the header row
clear_sheet_below_header(ws, dk) ==
    Res(Bool(TRUE), <<"Sheet", "cleared">>,
        [p \in {q \in DOMAIN ws : q[1] = 1} |-> ws[p]], dk)

clear_sheet(ws, dk) ==
    Res(Bool(TRUE), <<"Sheet", "cleared">>, EmptySheet, dk)

\* an add_row that loads the workbook from the file before it resolves the
\* row and writes
add_row_reloading(ws, dk, row_index, text) ==
    IF validate_row_index_raises(row_index)
    THEN Res(Bool(FALSE), <<"Error adding row:">>, ws, dk)
    ELSE
    IF ~validate_row_index(row_index)
    THEN Res(Bool(FALSE), <<"Invalid row index">>, ws, dk)
    ELSE LET idx == get_actual_row_index(dk, row_index)
             ws1 == ws_cell(insert_rows(dk, idx), idx, 1)
         IN  IF ~Storable(text)
             THEN Res(Bool(FALSE), <<"Error adding row:">>, ws1, dk)
             ELSE LET ws2 == set_value(ws1, idx, 1, text)
                  IN  Res(Bool(TRUE), <<"New row inserted at position", Str(text)>>,
                          ws2, Save(ws2))

add_row(ws, dk, row_index, text) ==
    IF validate_row_index_raises(row_index)
    THEN Res(Bool(FALSE), <<"Error adding row:">>, ws, dk)
    ELSE
    IF ~validate_row_index(row_index)
    THEN Res(Bool(FALSE), <<"Invalid row index">>, ws, dk)
    ELSE LET idx == get_actual_row_index(ws, row_index)
             ws1 == sheet_cell(insert_rows(ws, idx),
                               IF row_index.t = "bool" THEN row_index ELSE IntRef(idx), 1)
         IN  IF ~Storable(text)
             THEN Res(Bool(FALSE), <<"Error adding row:">>, ws1, dk)
             ELSE LET ws2 == set_value(ws1, idx, 1, text)
                  IN  Res(Bool(TRUE), <<"New row inserted at position", Str(text)>>,
                          ws2, Save(ws2))

write_cell(ws, dk, row_index, col_index, text) ==
    IF validate_row_index_raises(row_index)
    THEN \* int(row_index) at line 298 raises ValueError
         Res(Bool(FALSE), <<"Error writing to cell:">>, ws, dk)
    ELSE
    LET row == IF row_index.t = "str" /\ isdigit(row_index.s)
               THEN IntRef(int(row_index.s)) ELSE row_index
        num_col_index == get_col_index(col_index)
    IN  IF ~validate_row_index(row)
        THEN Res(Bool(FALSE), <<"Invalid row index">>, ws, dk)
        ELSE IF num_col_index = NoneIdx
        THEN Res(Bool(FALSE), <<"Invalid column index">>, ws, dk)
        ELSE IF ~isinstance_int(row)
        THEN \* sheet.cell(row="next_available", ...) raises TypeError
             Res(Bool(FALSE), <<"Error writing to cell:">>, ws, dk)
        ELSE LET ws1 == sheet_cell(ws, row, num_col_index)
             IN  IF ~Storable(text)
                 THEN Res(Bool(FALSE), <<"Error writing to cell:">>, ws1, dk)
                 ELSE LET ws2 == set_value(ws1, row.n, num_col_index, text)
                          \* the A1 verification reads sheet.cell(1, 1)
                          ws3 == IF row.n # 1 \/ num_col_index # 1
                                 THEN ws_cell(ws2, 1, 1) ELSE ws2
                      IN  Res(Bool(TRUE), <<"Value", Str(text), "written to">>,
                              ws3, Save(ws3))

(* row_data: [k |-> "list", x |-> the elements], [k |-> "dict", x |-> the  *)
(* keys, which is what iterating a mapping yields], [k |-> "str"] or       *)
(* [k |-> "scalar"] (a number, a boolean, None: not iterable).             *)

\* a write_row loop that also empties the columns of the row it does not write
write_elements_clearing(ws, row, elems, i) ==
    [ws |-> [p \in DOMAIN ws \cup {<<row.n, k>> : k \in 1..Len(elems)} |->
                IF p[1] # row.n THEN ws[p]
                ELSE IF p[2] <= Len(elems) THEN elems[p[2]] ELSE NoneV],
     raised |-> FALSE]

\* the for loop of write_row from element i on, for the row the caller
\* passed; raised is TRUE when an assignment raised
RECURSIVE write_elements(_, _, _, _)
write_elements(ws, row, elems, i) ==
    IF i > Len(elems) THEN [ws |-> ws, raised |-> FALSE]
    ELSE LET ws1 == sheet_cell(ws, row, i)
         IN  IF ~Storable(elems[i]) THEN [ws |-> ws1, raised |-> TRUE]
             ELSE write_elements(set_value(ws1, row.n, i, elems[i]), row, elems, i + 1)

write_row(ws, dk, row_index, row_data) ==
    IF validate_row_index_raises(row_index)
    THEN Res(Bool(FALSE), <<"Error writing row:">>, ws, dk)
    ELSE
    IF ~validate_row_index(row_index)
    THEN Res(Bool(FALSE), <<"Invalid row index">>, ws, dk)
    ELSE IF row_data.k = "str"
    THEN Res(Bool(FALSE), <<"Row data must be an iterable collection, not a string">>, ws, dk)
    ELSE IF row_data.k = "scalar"
    THEN Res(Bool(FALSE), <<"Row data must be iterable">>, ws, dk)
    ELSE IF Len(row_data.x) = 0
    THEN Res(Bool(TRUE), <<"Data written to row">>, ws, Save(ws))
    ELSE IF ~isinstance_int(row_index)
    THEN \* sheet.cell(row=<a str>, ...) raises TypeError on the first element
         Res(Bool(FALSE), <<"Error writing row:">>, ws, dk)
    ELSE LET w == write_elements(ws, row_index, row_data.x, 1)
         IN  IF w.raised
             THEN Res(Bool(FALSE), <<"Error writing row:">>, w.ws, dk)
             ELSE Res(Bool(TRUE), <<"Data written to row">>, w.ws, Save(w.ws))

clear_cell(ws, dk, row_index, col_index) ==
    IF validate_row_index_raises(row_index)
    THEN Res(Bool(FALSE), <<"Error clearing cell:">>, ws, dk)
    ELSE
    LET num_col_index == get_col_index(col_index)
    IN  IF ~validate_row_index(row_index)
        THEN Res(Bool(FALSE), <<"Invalid row index">>, ws, dk)
        ELSE IF num_col_index = NoneIdx
        THEN Res(Bool(FALSE), <<"Invalid column index">>, ws, dk)
        ELSE IF ~isinstance_int(row_index)
        THEN Res(Bool(FALSE), <<"Error clearing cell:">>, ws, dk)
        ELSE LET ws1 == set_value(sheet_cell(ws, row_index, num_col_index),
                                  row_index.n, num_col_index, NoneV)
             IN  Res(Bool(TRUE), <<"Content cleared from">>, ws1, Save(ws1))

read_header_row(ws, dk) ==
    LET ws1 == sheet_row(ws, 1)
    IN  Res(ListRet(RowValues(ws1, 1)), <<"Header row read successfully">>, ws1, dk)

read_column(ws, dk, col_index) ==
    LET num_col_index == get_col_index(col_index)
    IN  IF num_col_index = NoneIdx
        THEN Res(NoneRet, <<"Invalid column index">>, ws, dk)
        ELSE LET ws1 == sheet_col(ws, num_col_index)
             IN  Res(ListRet(ColValues(ws1, num_col_index)),
                     <<"Column", "read successfully">>, ws1, dk)

read_cell(ws, dk, row_index, col_index) ==
    IF validate_row_index_raises(row_index)
    THEN Res(NoneRet, <<"Error reading cell:">>, ws, dk)
    ELSE
    LET num_col_index == get_col_index(col_index)
    IN  IF ~validate_row_index(row_index)
        THEN Res(NoneRet, <<"Invalid row index">>, ws, dk)
        ELSE IF num_col_index = NoneIdx
        THEN Res(NoneRet, <<"Invalid column index">>, ws, dk)
        ELSE IF ~isinstance_int(row_index)
        THEN Res(NoneRet, <<"Error reading cell:">>, ws, dk)
        ELSE LET ws1 == sheet_cell(ws, row_index, num_col_index)
                 v == ValueAt(ws1, row_index.n, num_col_index)
             IN  Res(IF v = NoneV THEN NoneRet ELSE ValRet(v),
                     <<"Value", Str(v), "read from">>, ws1, dk)

read_row(ws, dk, row_index) ==
    IF validate_row_index_raises(row_index)
    THEN Res(NoneRet, <<"Error reading row:">>, ws, dk)
    ELSE
    IF ~validate_row_index(row_index)
    THEN Res(NoneRet, <<"Invalid row index">>, ws, dk)
    ELSE IF row_index = NextAvailable
    THEN \* "next_available" > max_row raises TypeError
         Res(NoneRet, <<"Error reading row:">>, ws, dk)
    ELSE LET r == get_actual_row_index(ws, row_index)
         IN  IF r > max_row(ws)
             THEN Res(ListRet(<<>>), <<"Row", "does not exist">>, ws, dk)
             ELSE IF row_index.t = "bool"
             THEN \* self.sheet[True]: Worksheet.__getitem__ makes the key
                  \* str(True) and raises ValueError, 'True' being no range
                  Res(NoneRet, <<"Error reading row:">>, ws, dk)
             ELSE LET ws1 == sheet_row(ws, r)
                  IN  Res(ListRet(RowValues(ws1, r)), <<"Row", "read successfully">>, ws1, dk)

clear_row(ws, dk, row_index) ==
    IF validate_row_index_raises(row_index)
    THEN Res(Bool(FALSE), <<"Error clearing row:">>, ws, dk)
    ELSE
    IF ~validate_row_index(row_index)
    THEN Res(Bool(FALSE), <<"Invalid row index">>, ws, dk)
    ELSE LET rd == read_row(ws, dk, row_index)
         IN  IF rd.ret.k = "none"
             THEN \* iterating the None that read_row returned raises TypeError
                  Res(Bool(FALSE), <<"Error clearing row:">>, rd.ws, dk)
             ELSE LET ws1 == delete_rows(rd.ws, get_actual_row_index(ws, row_index))
                  IN  Res(Bool(TRUE), <<"Row", "deleted">>, ws1, Save(ws1))

clear_column(ws, dk, col_index) ==
    LET num_col_index == get_col_index(col_index)
    IN  IF num_col_index = NoneIdx
        THEN Res(Bool(FALSE), <<"Invalid column index">>, ws, dk)
        ELSE LET rd == read_column(ws, dk, col_index)
                 ws1 == delete_cols(rd.ws, num_col_index)
             IN  Res(Bool(TRUE), <<"Column", "deleted">>, ws1, Save(ws1))

\* the index at which an enumerate(..., 1) loop returns: the first of the
\* matching indices, NoneIdx when the loop falls through
FirstMatch(hits) == IF hits # {} THEN Min(hits) ELSE NoneIdx

\* a get_column_index_by_header that counts the headers from 0
get_column_index_by_header_from_zero(ws, dk, header_name) ==
    LET rd == read_header_row(ws, dk)
        hits == {i \in 1..Len(rd.ret.x) : rd.ret.x[i] = header_name}
    IN  IF hits # {}
        THEN Res(IdxRet(Min(hits) - 1), <<"Column index found by header:", Str(header_name)>>,
                 rd.ws, dk)
        ELSE Res(NoneRet, <<"Header", Str(header_name), "not found">>, rd.ws, dk)

\* a get_column_index_by_header that ignores case and surrounding blanks
get_column_index_by_header_folded(ws, dk, header_name) ==
    LET rd == read_header_row(ws, dk)
        fold(x) == IF x.t = "str" /\ x.v \in {"A", " a"} THEN StrV("a") ELSE x
        hits == {k \in 1..Len(rd.ret.x) : fold(rd.ret.x[k]) = fold(header_name)}
    IN  IF hits # {}
        THEN Res(IdxRet(Min(hits)), <<"Column index found by header:", Str(header_name)>>,
                 rd.ws, dk)
        ELSE Res(NoneRet, <<"Header", Str(header_name), "not found">>, rd.ws, dk)

get_column_index_by_header(ws, dk, header_name) ==
    LET rd == read_header_row(ws, dk)
        i == FirstMatch({k \in 1..Len(rd.ret.x) : rd.ret.x[k] = header_name})
    IN  IF i # NoneIdx
        THEN Res(IdxRet(i), <<"Column index found by header:", Str(header_name)>>, rd.ws, dk)
        ELSE Res(NoneRet, <<"Header", Str(header_name), "not found">>, rd.ws, dk)

\* a get_row_index_by_value whose loop keeps the last matching row
get_row_index_by_value_last(ws, dk, col_index, search_value) ==
    LET numeric_col_index == get_col_index(col_index)
    IN  IF numeric_col_index = NoneIdx
        THEN Res(NoneRet, <<"Invalid column index">>, ws, dk)
        ELSE LET rd == read_column(ws, dk, col_index)
                 hits == {i \in 1..Len(rd.ret.x) :
                            rd.ret.x[i] # NoneV /\ Str(rd.ret.x[i]) = Str(search_value)}
             IN  IF hits # {}
                 THEN Res(IdxRet(Max(hits)), <<"Row index found:", Str(search_value)>>,
                          rd.ws, dk)
                 ELSE Res(NoneRet, <<"Value", Str(search_value), "not found in column">>,
                          rd.ws, dk)

\* a get_row_index_by_value that starts below the header row
get_row_index_by_value_below_header(ws, dk, col_index, search_value) ==
    LET numeric_col_index == get_col_index(col_index)
    IN  IF numeric_col_index = NoneIdx
        THEN Res(NoneRet, <<"Invalid column index">>, ws, dk)
        ELSE LET rd == read_column(ws, dk, col_index)
                 hits == {i \in 2..Len(rd.ret.x) :
                            rd.ret.x[i] # NoneV /\ Str(rd.ret.x[i]) = Str(search_value)}
             IN  IF hits # {}
                 THEN Res(IdxRet(Min(hits)), <<"Row index found:", Str(search_value)>>,
                          rd.ws, dk)
                 ELSE Res(NoneRet, <<"Value", Str(search_value), "not found in column">>,
                          rd.ws, dk)

\* a get_row_index_by_value that compares the values, not their str()
get_row_index_by_value_typed(ws, dk, col_index, search_value) ==
    LET numeric_col_index == get_col_index(col_index)
    IN  IF numeric_col_index = NoneIdx
        THEN Res(NoneRet, <<"Invalid column index">>, ws, dk)
        ELSE LET rd == read_column(ws, dk, col_index)
                 hits == {i \in 1..Len(rd.ret.x) : rd.ret.x[i] = search_value}
             IN  IF hits # {}
                 THEN Res(IdxRet(Min(hits)), <<"Row index found:", Str(search_value)>>,
                          rd.ws, dk)
                 ELSE Res(NoneRet, <<"Value", Str(search_value), "not found in column">>,
                          rd.ws, dk)

get_row_index_by_value(ws, dk, col_index, search_value) ==
    LET numeric_col_index == get_col_index(col_index)
    IN  IF numeric_col_index = NoneIdx
        THEN Res(NoneRet, <<"Invalid column index">>, ws, dk)
        ELSE LET rd == read_column(ws, dk, col_index)
                 i == FirstMatch({k \in 1..Len(rd.ret.x) :
                                    /\ rd.ret.x[k] # NoneV
                                    /\ Str(rd.ret.x[k]) = Str(search_value)})
             IN  IF i # NoneIdx
                 THEN Res(IdxRet(i), <<"Row index found:", Str(search_value)>>, rd.ws, dk)
                 ELSE Res(NoneRet, <<"Value", Str(search_value), "not found in column">>,
                          rd.ws, dk)

\* an update_cell_by_lookup that remembers the row and the column resolved
\* for the keys of the update before it, and writes there again
update_cell_by_lookup_remembering(ws, dk, row_header, row_value, col_header, new_value) ==
    LET s1 == get_column_index_by_header(
                  IF prev.op = "update_cell_by_lookup" THEN prev.pre ELSE ws, dk, row_header)
    IN  IF s1.ret.k = "none"
        THEN Res(Bool(FALSE),
                 <<"Could not find column with header", Str(row_header)>> \o s1.msg,
                 s1.ws, dk)
        ELSE
    LET s2 == get_column_index_by_header(s1.ws, dk, col_header)
    IN  IF s2.ret.k = "none"
        THEN Res(Bool(FALSE),
                 <<"Could not find column with header", Str(col_header)>> \o s2.msg,
                 s2.ws, dk)
        ELSE
    LET s3 == get_row_index_by_value(s2.ws, dk, IntRef(s1.ret.x), row_value)
    IN  IF s3.ret.k = "none"
        THEN Res(Bool(FALSE),
                 <<"Could not find row with value", Str(row_value)>> \o s3.msg,
                 s3.ws, dk)
        ELSE
    LET s4 == write_cell(ws, dk, IntRef(s3.ret.x), IntRef(s2.ret.x), new_value)
    IN  IF ~s4.ret.x
        THEN Res(Bool(FALSE), <<"Failed to write to cell at row">> \o s4.msg, s4.ws, s4.dk)
        ELSE Res(Bool(TRUE), <<"Successfully updated cell at row", Str(new_value)>>,
                 s4.ws, s4.dk)

\* an update_cell_by_lookup that resolves col_header before row_header
update_cell_by_lookup_col_first(ws, dk, row_header, row_value, col_header, new_value) ==
    LET s2 == get_column_index_by_header(ws, dk, col_header)
    IN  IF s2.ret.k = "none"
        THEN Res(Bool(FALSE),
                 <<"Could not find column with header", Str(col_header)>> \o s2.msg,
                 s2.ws, dk)
        ELSE
    LET s1 == get_column_index_by_header(s2.ws, dk, row_header)
    IN  IF s1.ret.k = "none"
        THEN Res(Bool(FALSE),
                 <<"Could not find column with header", Str(row_header)>> \o s1.msg,
                 s1.ws, dk)
        ELSE
    LET s3 == get_row_index_by_value(s1.ws, dk, IntRef(s1.ret.x), row_value)
    IN  IF s3.ret.k = "none"
        THEN Res(Bool(FALSE),
                 <<"Could not find row with value", Str(row_value)>> \o s3.msg,
                 s3.ws, dk)
        ELSE
    LET s4 == write_cell(s3.ws, dk, IntRef(s3.ret.x), IntRef(s2.ret.x), new_value)
    IN  IF ~s4.ret.x
        THEN Res(Bool(FALSE), <<"Failed to write to cell at row">> \o s4.msg, s4.ws, s4.dk)
        ELSE Res(Bool(TRUE), <<"Successfully updated cell at row", Str(new_value)>>,
                 s4.ws, s4.dk)

update_cell_by_lookup(ws, dk, row_header, row_value, col_header, new_value) ==
    LET s1 == get_column_index_by_header(ws, dk, row_header)
    IN  IF s1.ret.k = "none"
        THEN Res(Bool(FALSE),
                 <<"Could not find column with header", Str(row_header)>> \o s1.msg,
                 s1.ws, dk)
        ELSE
    LET s2 == get_column_index_by_header(s1.ws, dk, col_header)
    IN  IF s2.ret.k = "none"
        THEN Res(Bool(FALSE),
                 <<"Could not find column with header", Str(col_header)>> \o s2.msg,
                 s2.ws, dk)
        ELSE
    LET s3 == get_row_index_by_value(s2.ws, dk, IntRef(s1.ret.x), row_value)
    IN  IF s3.ret.k = "none"
        THEN Res(Bool(FALSE),
                 <<"Could not find row with value", Str(row_value)>> \o s3.msg,
                 s3.ws, dk)
        ELSE
    LET s4 == write_cell(s3.ws, dk, IntRef(s3.ret.x), IntRef(s2.ret.x), new_value)
    IN  IF ~s4.ret.x
        THEN Res(Bool(FALSE), <<"Failed to write to cell at row">> \o s4.msg, s4.ws, s4.dk)
        ELSE Res(Bool(TRUE), <<"Successfully updated cell at row", Str(new_value)>>,
                 s4.ws, s4.dk)

----------------------------------------------------------------------------
(* process_json_operation.  An envelope is json_input by what json.loads   *)
(* makes of it; a str, a bytes and a bytearray that hold the same JSON     *)
(* text are one envelope:                                                  *)
(*   j       "text": json.loads raises JSONDecodeError (not JSON);         *)
(*           "raises": json.loads raises another exception (TypeError for  *)
(*           None, a number or a mapping as json_input, RecursionError for *)
(*           nesting beyond the recursion limit, ValueError for an integer *)
(*           beyond the digit limit or for bytes that are not UTF-8);      *)
(*           else the JSON value it returns: "scalar" (a number, true,     *)
(*           false, null), "string", "list" or "object"                    *)
(*   named   "function_name" in operation: a key of the object, an element *)
(*           of the list, a substring of the string                        *)
(*   fname   operation["function_name"], of an object                      *)
(*   pk      operation.get("parameters", {}): "object" (a non-empty        *)
(*           mapping), "absent", "empty" (a falsy value: {}, [], "", 0,    *)
(*           false, null), "list" (a non-empty list), "string" (a          *)
(*           non-empty string), "number" (a number but 0, or true)         *)
(*   missing the required names that are not in parameters: no key of the  *)
(*           mapping, no element of the list, no substring of the string   *)
(*   a       the values the parameters object holds                        *)

Required(fname) ==
    CASE fname = "excel_add_row" -> {"row_index", "text"}
      [] fname = "excel_write_cell" -> {"row_index", "col_index", "text"}
      [] fname = "excel_write_row" -> {"row_index", "row_data"}
      [] fname = "excel_clear_cell" -> {"row_index", "col_index"}
      [] fname = "excel_clear_row" -> {"row_index"}
      [] fname = "excel_clear_column" -> {"col_index"}
      [] fname = "excel_read_column" -> {"col_index"}
      [] fname = "excel_read_cell" -> {"row_index", "col_index"}
      [] fname = "excel_read_row" -> {"row_index"}
      [] fname = "excel_get_column_index_by_header" -> {"header_name"}
      [] fname = "excel_get_row_index_by_value" -> {"col_index", "search_value"}
      [] fname = "excel_update_cell_by_lookup" ->
            {"row_header", "row_value", "col_header", "new_value"}
      [] OTHER -> {}

\* a _validate_parameters that lets every parameters value through
validate_parameters_lenient(env, required) == "ok"

\* _validate_parameters: "ok" for True, "missing" for False, and "raise" for
\* the TypeError of "param not in params" on a number
validate_parameters(env, required) ==
    IF env.pk \in {"absent", "empty"}
    THEN IF required = {} THEN "ok" ELSE "missing"
    ELSE IF required = {} THEN "ok"
    ELSE IF env.pk = "number" THEN "raise"
    ELSE IF required \cap env.missing = {} THEN "ok" ELSE "missing"

\* str.startswith("Success") and str.startswith("Value") of a message
StartsWithSuccess(msg) ==
    Len(msg) > 0 /\ Head(msg) \in {"Success:", "Successfully updated cell at row"}
StartsWithValue(msg) == Len(msg) > 0 /\ Head(msg) = "Value"

Rejected(ws, dk, msg) ==
    [reward |-> -1, feedback |-> <<"Error:">> \o msg, ws |-> ws, dk |-> dk,
     end |-> "Rejected"]

Raised(ws, dk) ==
    [reward |-> 0, feedback |-> <<>>, ws |-> ws, dk |-> dk, end |-> "Raised"]

\* the reward and the feedback of a dispatched operation (lines 1161-1176)
final_report_unprefixed(success, message, ws, dk) ==
    [reward |-> IF success THEN 1 ELSE -1,
     feedback |-> IF success THEN message ELSE <<"Error:">> \o message,
     ws |-> ws, dk |-> dk, end |-> "Reported"]

final_report(success, message, ws, dk) ==
    [reward |-> IF success THEN 1 ELSE -1,
     feedback |-> IF success
                  THEN IF ~StartsWithSuccess(message)
                       THEN <<"Success:">> \o message ELSE message
                  ELSE <<"Error:">> \o message,
     ws |-> ws, dk |-> dk, end |-> "Reported"]

\* success, message = self.<a method that returns (success, message)>
Mutated(r) == final_report(r.ret.x, r.msg, r.ws, r.dk)

\* result, message = self.<a method that returns (result, message)>;
\* success = result is not None; the message replaced on success
Queried(r, text) ==
    final_report(r.ret.k # "none",
                 IF r.ret.k # "none" THEN <<"Success:", text>> ELSE r.msg, r.ws, r.dk)

\* the excel_read_cell branch: success = result is not None or
\* message.startswith("Value")
QueriedCell(r) ==
    final_report(r.ret.k # "none" \/ StartsWithValue(r.msg),
                 IF r.ret.k # "none" \/ StartsWithValue(r.msg)
                 THEN <<"Success:", "Read value">> ELSE r.msg, r.ws, r.dk)

\* the excel_update_cell_by_lookup branch: the method's message is kept
\* behind "Success: Cell updated successfully."
Updated(r) ==
    final_report(r.ret.x,
                 IF r.ret.x THEN <<"Success:", "Cell updated successfully.">> \o r.msg
                 ELSE r.msg,
                 r.ws, r.dk)

\* the extra validation of row_index in the excel_add_row branch, where
\* int(row_index) does not raise
add_row_index_ok(row_index) ==
    \/ row_index = NextAvailable
    \/ isinstance_int(row_index) /\ row_index.n > 0
    \/ row_index.t = "str" /\ isdigit(row_index.s) /\ int(row_index.s) > 0

\* the extra validation of row_index and col_index in the excel_write_cell
\* branch, where int(row_index) does not raise
write_cell_row_ok(row_index) ==
    \/ isinstance_int(row_index) /\ row_index.n > 0
    \/ row_index.t = "str" /\ isdigit(row_index.s) /\ int(row_index.s) > 0

write_cell_col_ok(col_index) ==
    IF col_index.t = "str"
    THEN ~(~isdigit(col_index.s)
           /\ (Len(col_index.s) > 3
               \/ ~(\A i \in 1..Len(col_index.s) : isalpha(col_index.s[i]))))
    ELSE isinstance_int(col_index) /\ col_index.n > 0

\* the body of the try block of process_json_operation
dispatch(ws, dk, env) ==
    LET a == env.a
        fname == env.fname
        v == validate_parameters(env, Required(fname))
        Missing == Rejected(ws, dk, <<"Missing required parameters for", fname>>)
    IN
    IF env.j = "text" THEN Rejected(ws, dk, <<"Invalid JSON format">>)
    ELSE IF env.j = "raises" THEN Raised(ws, dk)
    ELSE IF env.j = "scalar"
    THEN \* "function_name" not in <a number, a bool, None> raises TypeError
         Raised(ws, dk)
    ELSE IF ~env.named
    THEN Rejected(ws, dk, <<"JSON missing 'function_name' field">>)
    ELSE IF env.j \in {"list", "string"}
    THEN \* operation["function_name"] raises TypeError
         Raised(ws, dk)
    ELSE IF fname = "excel_clear_sheet" THEN Mutated(clear_sheet(ws, dk))
    ELSE IF fname = "excel_read_header_row"
    THEN Queried(read_header_row(ws, dk), "Header row read successfully.")
    ELSE IF Required(fname) = {}
    THEN Rejected(ws, dk, <<"Unknown function:", fname>>)
    ELSE IF v = "missing" THEN Missing
    ELSE IF v = "raise" THEN Raised(ws, dk)
    ELSE IF env.pk \in {"list", "string"}
    THEN \* parameters["<name>"] raises TypeError
         Raised(ws, dk)
    ELSE IF fname = "excel_add_row"
    THEN IF validate_row_index_raises(a.row_index)
         THEN \* int(row_index) at line 897 raises ValueError
              Raised(ws, dk)
         ELSE IF ~add_row_index_ok(a.row_index)
         THEN Rejected(ws, dk, <<"Invalid row_index">>)
         ELSE Mutated(add_row(ws, dk, a.row_index, a.text))
    ELSE IF fname = "excel_write_cell"
    THEN IF validate_row_index_raises(a.row_index)
         THEN \* int(row_index) at line 924 raises ValueError
              Raised(ws, dk)
         ELSE IF ~write_cell_row_ok(a.row_index)
         THEN Rejected(ws, dk, <<"Invalid row_index">>)
         ELSE IF ~write_cell_col_ok(a.col_index)
         THEN Rejected(ws, dk, <<"Invalid col_index">>)
         ELSE Mutated(write_cell(ws, dk,
                  IF a.row_index.t = "str" /\ isdigit(a.row_index.s)
                  THEN IntRef(int(a.row_index.s))
                  ELSE a.row_index,
                  a.col_index, a.text))
    ELSE IF fname = "excel_write_row"
    THEN IF a.row_data.k = "scalar"
         THEN Rejected(ws, dk, <<"Invalid row_data">>)
         ELSE Mutated(write_row(ws, dk, a.row_index, a.row_data))
    ELSE IF fname = "excel_clear_cell"
    THEN Mutated(clear_cell(ws, dk, a.row_index, a.col_index))
    ELSE IF fname = "excel_clear_row"
    THEN Mutated(clear_row(ws, dk, a.row_index))
    ELSE IF fname = "excel_clear_column"
    THEN Mutated(clear_column(ws, dk, a.col_index))
    ELSE IF fname = "excel_read_column"
    THEN IF isinstance_int(a.col_index) /\ a.col_index.n < 1
         THEN \* get_column_letter(col_index) raises ValueError
              Raised(ws, dk)
         ELSE Queried(read_column(ws, dk, a.col_index), "column read successfully.")
    ELSE IF fname = "excel_read_cell"
    THEN QueriedCell(read_cell(ws, dk, a.row_index, a.col_index))
    ELSE IF fname = "excel_read_row"
    THEN Queried(read_row(ws, dk, a.row_index), "Row read successfully.")
    ELSE IF fname = "excel_get_column_index_by_header"
    THEN Queried(get_column_index_by_header(ws, dk, a.header_name),
                 "Column index found by header.")
    ELSE IF fname = "excel_get_row_index_by_value"
    THEN Queried(get_row_index_by_value(ws, dk, a.col_index, a.search_value),
                 "Row index found by value.")
    ELSE \* excel_update_cell_by_lookup
         Updated(update_cell_by_lookup(ws, dk, a.row_header, a.row_value,
                                       a.col_header, a.new_value))

\* process_json_operation without its except clause
dispatch_uncaught(ws, dk, env) == dispatch(ws, dk, env)

\* process_json_operation: the try block, and the except clause that turns
\* whatever it raised into a reported failure
except_clause(r) ==
    IF r.end = "Raised"
    THEN [reward |-> -1,
          feedback |-> <<"Error:", "Error processing JSON operation:">>,
          ws |-> r.ws, dk |-> r.dk, end |-> "Reported"]
    ELSE r

process_json_operation(ws, dk, env) == except_clause(dispatch(ws, dk, env))

----------------------------------------------------------------------------
(* Inputs, for a sheet of up to R rows and C columns *)

A == StrV("a")
B == StrV("b")

\* what a caller passes as text / new_value: a string, None, or a mapping
Texts == {NoneV, A, B, DictV}
\* what a caller passes as a header name or a search value
Keys == {A, B}

\* the rows and the columns of the grid
GridRows(R) == {IntRef(r) : r \in 1..R}
GridCols(C) == {IntRef(c) : c \in 1..C}
\* other row references: zero, a digit string, the sentinel, a float or
\* null, and a string of a digit that is no decimal
OddRows == {IntRef(0), StrRef(<<"1">>), NextAvailable, OtherRef, StrRef(<<"U+00B2">>)}
\* other column references: zero, a digit string, letters, a non-letter, and
\* a letter outside A-Z
OddCols ==
    {IntRef(0), StrRef(<<"2">>), StrRef(<<"a">>), StrRef(<<"B">>), StrRef(<<"#">>),
     StrRef(<<"U+00E9">>)}

RowRefs(R) == GridRows(R) \cup OddRows
ColRefs(C) == GridCols(C) \cup OddCols

CellRefs(R, C) ==
    (GridRows(R) \X GridCols(C)) \cup (OddRows \X {IntRef(1)}) \cup ({IntRef(2)} \X OddCols)

ListData(seq) == [k |-> "list", x |-> seq]
RowDatas ==
    {ListData(<<>>), ListData(<<A>>), ListData(<<B, A>>), ListData(<<NoneV, B>>),
     ListData(<<DictV>>), ListData(<<A, DictV>>),
     [k |-> "dict", x |-> <<A>>], [k |-> "str", x |-> <<>>], [k |-> "scalar", x |-> <<>>]}

DefaultArgs ==
    [row_index |-> IntRef(1), col_index |-> IntRef(1), text |-> A,
     row_data |-> ListData(<<A>>), header_name |-> A, search_value |-> A,
     row_header |-> A, row_value |-> A, col_header |-> B, new_value |-> B]

Env(fname, a) ==
    [j |-> "object", named |-> TRUE, fname |-> fname, pk |-> "object",
     missing |-> {}, a |-> a]

FunctionNames ==
    {"excel_clear_sheet", "excel_add_row", "excel_write_cell", "excel_write_row",
     "excel_clear_cell", "excel_clear_row", "excel_clear_column",
     "excel_read_header_row", "excel_read_column", "excel_read_cell",
     "excel_read_row", "excel_get_column_index_by_header",
     "excel_get_row_index_by_value", "excel_update_cell_by_lookup"}

----------------------------------------------------------------------------
(* The handler as a state machine: a call runs to completion, is recorded  *)
(* with the worksheet and file it found, and returns before the next one.  *)

Idle == [op |-> "idle", args |-> <<>>, ret |-> NoneRet, msg |-> <<>>,
         pre |-> EmptySheet, predisk |-> EmptySheet, end |-> "Idle"]

Called(R, C, op, args, r) ==
    /\ call.op = "idle"
    /\ DOMAIN r.ws \subseteq (1..R) \X (1..C)
    /\ cells' = r.ws
    /\ disk' = r.dk
    /\ call' = [op |-> op, args |-> args, ret |-> r.ret, msg |-> r.msg,
                pre |-> cells, predisk |-> disk, end |-> "Returned"]
    /\ UNCHANGED <<prev, peer>>

\* ExcelHandler(filename) on a file that does not exist: a new workbook, saved
Init ==
    /\ cells = EmptySheet
    /\ disk = Save(EmptySheet)
    /\ call = Idle
    /\ prev = Idle
    /\ peer = EmptySheet

\* ExcelHandler(filename) on the file a handler left
Reopen ==
    /\ call.op = "idle"
    /\ <<cells, disk>> # <<ExcelHandler(disk).ws, ExcelHandler(disk).dk>>
    /\ cells' = ExcelHandler(disk).ws
    /\ disk' = ExcelHandler(disk).dk
    /\ UNCHANGED <<call, prev, peer>>

Return ==
    /\ call.op # "idle"
    /\ call' = Idle
    /\ UNCHANGED <<cells, disk, prev, peer>>

ClearSheet(R, C) == Called(R, C, "clear_sheet", <<>>, clear_sheet(cells, disk))

AddRow(R, C) ==
    \E row \in RowRefs(R), text \in Texts :
        Called(R, C, "add_row", <<row, text>>, add_row(cells, disk, row, text))

WriteCell(R, C) ==
    \E rc \in CellRefs(R, C), text \in Texts :
        Called(R, C, "write_cell", <<rc[1], rc[2], text>>,
               write_cell(cells, disk, rc[1], rc[2], text))

WriteRow(R, C) ==
    \E row \in RowRefs(R), data \in RowDatas :
        Called(R, C, "write_row", <<row, data>>, write_row(cells, disk, row, data))

ClearCell(R, C) ==
    \E rc \in CellRefs(R, C) :
        Called(R, C, "clear_cell", <<rc[1], rc[2]>>,
               clear_cell(cells, disk, rc[1], rc[2]))

ClearRow(R, C) ==
    \E row \in RowRefs(R) :
        Called(R, C, "clear_row", <<row>>, clear_row(cells, disk, row))

ClearColumn(R, C) ==
    \E col \in ColRefs(C) :
        Called(R, C, "clear_column", <<col>>, clear_column(cells, disk, col))

ReadHeaderRow(R, C) ==
    Called(R, C, "read_header_row", <<>>, read_header_row(cells, disk))

ReadColumn(R, C) ==
    \E col \in ColRefs(C) :
        Called(R, C, "read_column", <<col>>, read_column(cells, disk, col))

ReadCell(R, C) ==
    \E rc \in CellRefs(R, C) :
        Called(R, C, "read_cell", <<rc[1], rc[2]>>,
               read_cell(cells, disk, rc[1], rc[2]))

ReadRow(R, C) ==
    \E row \in RowRefs(R) :
        Called(R, C, "read_row", <<row>>, read_row(cells, disk, row))

GetColumnIndexByHeader(R, C) ==
    \E h \in Keys :
        Called(R, C, "get_column_index_by_header", <<h>>,
               get_column_index_by_header(cells, disk, h))

GetRowIndexByValue(R, C) ==
    \E col \in ColRefs(C), v \in Keys :
        Called(R, C, "get_row_index_by_value", <<col, v>>,
               get_row_index_by_value(cells, disk, col, v))

UpdateCellByLookup(R, C) ==
    \E rh \in Keys, rv \in Keys, ch \in Keys, nv \in Texts :
        Called(R, C, "update_cell_by_lookup", <<rh, rv, ch, nv>>,
               update_cell_by_lookup(cells, disk, rh, rv, ch, nv))

\* process_json_operation(json_input) returning (reward, feedback)
ReturnedJson(env, r) ==
    /\ call.op = "idle"
    /\ DOMAIN r.ws \subseteq (1..MaxRow) \X (1..MaxCol)
    /\ cells' = r.ws
    /\ disk' = r.dk
    /\ call' = [op |-> "process_json_operation", args |-> <<env>>,
                ret |-> [k |-> "reward", x |-> r.reward], msg |-> r.feedback,
                pre |-> cells, predisk |-> disk, end |-> r.end]
    /\ UNCHANGED <<prev, peer>>

CalledJson(env) == ReturnedJson(env, process_json_operation(cells, disk, env))

\* json_input that json.loads raises on, or that is JSON but not an object:
\* a string or a list, with "function_name" in it or not
JsonNotAnObject ==
    \E k \in {"text", "raises", "scalar", "string", "list"} :
        \E n \in IF k \in {"string", "list"} THEN BOOLEAN ELSE {FALSE} :
            CalledJson([Env("excel_write_cell", DefaultArgs) EXCEPT !.j = k, !.named = n])

JsonUnnamed ==
    CalledJson([Env("excel_write_cell", DefaultArgs) EXCEPT !.named = FALSE])

JsonUnknownFunction ==
    CalledJson(Env("excel_unknown_op", DefaultArgs))

\* "parameters" absent, falsy, a number, or a list or a string with the
\* required names in it or not
JsonParametersNotAnObject ==
    \E f \in {"excel_clear_sheet", "excel_write_cell", "excel_clear_row"},
       k \in {"absent", "empty", "list", "string", "number"} :
        \E m \in IF k \in {"list", "string"} THEN {{}, Required(f)} ELSE {Required(f)} :
            CalledJson([Env(f, DefaultArgs) EXCEPT !.pk = k, !.missing = m])

JsonMissingParameter ==
    \E f \in FunctionNames : \E k \in Required(f) :
        CalledJson([Env(f, DefaultArgs) EXCEPT !.missing = {k}])

JsonClearSheet ==
    CalledJson(Env("excel_clear_sheet", DefaultArgs))

JsonAddRow ==
    \E row \in RowRefs(MaxRow), t \in Texts :
        CalledJson(Env("excel_add_row",
                       [DefaultArgs EXCEPT !.row_index = row, !.text = t]))

JsonWriteCell ==
    \E rc \in CellRefs(MaxRow, MaxCol), t \in Texts :
        CalledJson(Env("excel_write_cell",
                       [DefaultArgs EXCEPT !.row_index = rc[1], !.col_index = rc[2],
                                           !.text = t]))

JsonWriteRow ==
    \E row \in RowRefs(MaxRow), d \in RowDatas :
        CalledJson(Env("excel_write_row",
                       [DefaultArgs EXCEPT !.row_index = row, !.row_data = d]))

JsonClearCell ==
    \E rc \in CellRefs(MaxRow, MaxCol) :
        CalledJson(Env("excel_clear_cell",
                       [DefaultArgs EXCEPT !.row_index = rc[1], !.col_index = rc[2]]))

JsonClearRow ==
    \E row \in RowRefs(MaxRow) :
        CalledJson(Env("excel_clear_row", [DefaultArgs EXCEPT !.row_index = row]))

JsonClearColumn ==
    \E col \in ColRefs(MaxCol) :
        CalledJson(Env("excel_clear_column", [DefaultArgs EXCEPT !.col_index = col]))

JsonReadHeaderRow ==
    CalledJson(Env("excel_read_header_row", DefaultArgs))

JsonReadColumn ==
    \E col \in ColRefs(MaxCol) :
        CalledJson(Env("excel_read_column", [DefaultArgs EXCEPT !.col_index = col]))

JsonReadCell ==
    \E rc \in CellRefs(MaxRow, MaxCol) :
        CalledJson(Env("excel_read_cell",
                       [DefaultArgs EXCEPT !.row_index = rc[1], !.col_index = rc[2]]))

JsonReadRow ==
    \E row \in RowRefs(MaxRow) :
        CalledJson(Env("excel_read_row", [DefaultArgs EXCEPT !.row_index = row]))

JsonGetColumnIndexByHeader ==
    \E h \in Keys :
        CalledJson(Env("excel_get_column_index_by_header",
                       [DefaultArgs EXCEPT !.header_name = h]))

JsonGetRowIndexByValue ==
    \E col \in ColRefs(MaxCol), v \in Keys :
        CalledJson(Env("excel_get_row_index_by_value",
                       [DefaultArgs EXCEPT !.col_index = col, !.search_value = v]))

JsonUpdateCellByLookup ==
    \E rh \in Keys, rv \in Keys, ch \in Keys, nv \in Texts :
        CalledJson(Env("excel_update_cell_by_lookup",
                       [DefaultArgs EXCEPT !.row_header = rh, !.row_value = rv,
                                           !.col_header = ch, !.new_value = nv]))

\* Every operation of the handler, and the file
Next ==
    \/ ClearSheet(MaxRow, MaxCol)
    \/ AddRow(MaxRow, MaxCol)
    \/ WriteCell(MaxRow, MaxCol)
    \/ WriteRow(MaxRow, MaxCol)
    \/ ClearCell(MaxRow, MaxCol)
    \/ ClearRow(MaxRow, MaxCol)
    \/ ClearColumn(MaxRow, MaxCol)
    \/ ReadHeaderRow(MaxRow, MaxCol)
    \/ ReadColumn(MaxRow, MaxCol)
    \/ ReadCell(MaxRow, MaxCol)
    \/ ReadRow(MaxRow, MaxCol)
    \/ GetColumnIndexByHeader(MaxRow, MaxCol)
    \/ GetRowIndexByValue(MaxRow, MaxCol)
    \/ UpdateCellByLookup(MaxRow, MaxCol)
    \/ Reopen
    \/ Return

Spec == Init /\ [][Next]_vars

\* The handler driven through process_json_operation
NextJson ==
    \/ JsonNotAnObject
    \/ JsonUnnamed
    \/ JsonUnknownFunction
    \/ JsonParametersNotAnObject
    \/ JsonMissingParameter
    \/ JsonClearSheet
    \/ JsonAddRow
    \/ JsonWriteCell
    \/ JsonWriteRow
    \/ JsonClearCell
    \/ JsonClearRow
    \/ JsonClearColumn
    \/ JsonReadHeaderRow
    \/ JsonReadColumn
    \/ JsonReadCell
    \/ JsonReadRow
    \/ JsonGetColumnIndexByHeader
    \/ JsonGetRowIndexByValue
    \/ JsonUpdateCellByLookup
    \/ Reopen
    \/ Return

SpecJson == Init /\ [][NextJson]_vars

\* A taller sheet: the operations that write cells, delete rows and look up
NextTall ==
    \/ WriteCell(TallRows, MaxCol)
    \/ ClearCell(TallRows, MaxCol)
    \/ ClearRow(TallRows, MaxCol)
    \/ ReadRow(TallRows, MaxCol)
    \/ UpdateCellByLookup(TallRows, MaxCol)
    \/ Return

SpecTall == Init /\ [][NextTall]_vars

\* A wider sheet: the operations that write cells and delete columns
NextWide ==
    \/ WriteCell(MaxRow, WideCols)
    \/ ClearColumn(MaxRow, WideCols)
    \/ ReadHeaderRow(MaxRow, WideCols)
    \/ Return

SpecWide == Init /\ [][NextWide]_vars

\* A taller sheet: the operations that write cells and insert rows
NextRows ==
    \/ AddRow(TallRows, MaxCol)
    \/ WriteCell(TallRows, MaxCol)
    \/ Return

SpecRows == Init /\ [][NextRows]_vars

(* One row whose columns are addressed by number, digit string and label:  *)
(* the first two columns and the columns on either side of the step from   *)
(* one letter to two.                                                      *)

LabelCoords == {1} \X {1, 2, 26, 27}

ColumnLabels ==
    {IntRef(1), StrRef(<<"1">>), StrRef(<<"A">>), StrRef(<<"a">>),
     IntRef(2), StrRef(<<"2">>), StrRef(<<"B">>), StrRef(<<"b">>),
     IntRef(26), StrRef(<<"2", "6">>), StrRef(<<"Z">>), StrRef(<<"z">>),
     IntRef(27), StrRef(<<"2", "7">>), StrRef(<<"A", "A">>), StrRef(<<"a", "a">>),
     StrRef(<<"a", "A">>)}

\* not a column: a non-positive integer, "0", "", and strings that hold a
\* character that is neither a letter nor a digit
NotColumns ==
    {IntRef(0), IntRef(-1), StrRef(<<"0">>), StrRef(<<>>), StrRef(<<"#">>),
     StrRef(<<"A", "#">>), StrRef(<<" ", "A">>)}

CalledWithin(coords, op, args, r) ==
    /\ call.op = "idle"
    /\ DOMAIN r.ws \subseteq coords
    /\ cells' = r.ws
    /\ disk' = r.dk
    /\ call' = [op |-> op, args |-> args, ret |-> r.ret, msg |-> r.msg,
                pre |-> cells, predisk |-> disk, end |-> "Returned"]
    /\ UNCHANGED <<prev, peer>>

WriteCellByLabel ==
    \E col \in ColumnLabels \cup NotColumns, text \in Keys :
        CalledWithin(LabelCoords, "write_cell", <<IntRef(1), col, text>>,
                     write_cell(cells, disk, IntRef(1), col, text))

ClearCellByLabel ==
    \E col \in ColumnLabels \cup NotColumns :
        CalledWithin(LabelCoords, "clear_cell", <<IntRef(1), col>>,
                     clear_cell(cells, disk, IntRef(1), col))

ClearColumnByLabel ==
    \E col \in ColumnLabels \cup NotColumns :
        CalledWithin(LabelCoords, "clear_column", <<col>>,
                     clear_column(cells, disk, col))

ReadColumnByLabel ==
    \E col \in ColumnLabels \cup NotColumns :
        CalledWithin(LabelCoords, "read_column", <<col>>,
                     read_column(cells, disk, col))

ReadCellByLabel ==
    \E col \in ColumnLabels \cup NotColumns :
        CalledWithin(LabelCoords, "read_cell", <<IntRef(1), col>>,
                     read_cell(cells, disk, IntRef(1), col))

GetRowIndexByValueByLabel ==
    \E col \in ColumnLabels \cup NotColumns, v \in Keys :
        CalledWithin(LabelCoords, "get_row_index_by_value", <<col, v>>,
                     get_row_index_by_value(cells, disk, col, v))

NextCols ==
    \/ WriteCellByLabel
    \/ ClearCellByLabel
    \/ ClearColumnByLabel
    \/ ReadColumnByLabel
    \/ ReadCellByLabel
    \/ GetRowIndexByValueByLabel
    \/ Return

SpecCols == Init /\ [][NextCols]_vars

(* A header row of WideCols columns whose names differ in case and in a    *)
(* leading blank.                                                          *)

UpperA == StrV("A")
PaddedA == StrV(" a")

WriteHeader ==
    \E c \in 1..WideCols, text \in {A, UpperA, PaddedA, NoneV} :
        Called(1, WideCols, "write_cell", <<IntRef(1), IntRef(c), text>>,
               write_cell(cells, disk, IntRef(1), IntRef(c), text))

FindHeader ==
    \E h \in {A, UpperA, PaddedA, B} :
        Called(1, WideCols, "get_column_index_by_header", <<h>>,
               get_column_index_by_header(cells, disk, h))

NextHeaders ==
    \/ WriteHeader
    \/ FindHeader
    \/ Return

SpecHeaders == Init /\ [][NextHeaders]_vars

(* A key column of TallRows rows that holds numbers and strings.           *)

Five == IntV("5")
FiveText == StrV("5")

WriteKey ==
    \E r \in 1..TallRows, text \in {A, Five, FiveText, NoneV} :
        Called(TallRows, 1, "write_cell", <<IntRef(r), IntRef(1), text>>,
               write_cell(cells, disk, IntRef(r), IntRef(1), text))

FindValue ==
    \E col \in {IntRef(1), StrRef(<<"A">>)}, v \in {A, B, Five, FiveText} :
        Called(TallRows, 1, "get_row_index_by_value", <<col, v>>,
               get_row_index_by_value(cells, disk, col, v))

NextValues ==
    \/ WriteKey
    \/ FindValue
    \/ Return

SpecValues == Init /\ [][NextValues]_vars

(* Row and column references of every type, True among them, in envelopes  *)
(* that name the operations addressed by row or column.                    *)

RefRows == RowRefs(MaxRow) \cup {BoolRef(TRUE), BoolRef(FALSE)}
RefCols == ColRefs(MaxCol) \cup {BoolRef(TRUE), BoolRef(FALSE)}
RefCells ==
    ((GridRows(MaxRow) \cup {BoolRef(TRUE)}) \X (GridCols(MaxCol) \cup {BoolRef(TRUE)}))
        \cup ((OddRows \cup {BoolRef(FALSE)}) \X {IntRef(1)})
        \cup ({IntRef(2)} \X {IntRef(0), BoolRef(FALSE), StrRef(<<"B">>), StrRef(<<"#">>)})
RefTexts == {A, DictV}
RefRowDatas == {ListData(<<>>), ListData(<<A, A>>), ListData(<<A, DictV>>)}

RefAddRow ==
    \E row \in RefRows, t \in RefTexts :
        CalledJson(Env("excel_add_row",
                       [DefaultArgs EXCEPT !.row_index = row, !.text = t]))

RefWriteCell ==
    \E rc \in RefCells :
        CalledJson(Env("excel_write_cell",
                       [DefaultArgs EXCEPT !.row_index = rc[1], !.col_index = rc[2],
                                           !.text = A]))

RefWriteRow ==
    \E row \in RefRows, d \in RefRowDatas :
        CalledJson(Env("excel_write_row",
                       [DefaultArgs EXCEPT !.row_index = row, !.row_data = d]))

RefClearCell ==
    \E rc \in RefCells :
        CalledJson(Env("excel_clear_cell",
                       [DefaultArgs EXCEPT !.row_index = rc[1], !.col_index = rc[2]]))

RefClearRow ==
    \E row \in RefRows :
        CalledJson(Env("excel_clear_row", [DefaultArgs EXCEPT !.row_index = row]))

RefClearColumn ==
    \E col \in RefCols :
        CalledJson(Env("excel_clear_column", [DefaultArgs EXCEPT !.col_index = col]))

RefReadColumn ==
    \E col \in RefCols :
        CalledJson(Env("excel_read_column", [DefaultArgs EXCEPT !.col_index = col]))

RefReadCell ==
    \E rc \in RefCells :
        CalledJson(Env("excel_read_cell",
                       [DefaultArgs EXCEPT !.row_index = rc[1], !.col_index = rc[2]]))

RefReadRow ==
    \E row \in RefRows :
        CalledJson(Env("excel_read_row", [DefaultArgs EXCEPT !.row_index = row]))

NextRefs ==
    \/ JsonUnknownFunction
    \/ JsonParametersNotAnObject
    \/ JsonMissingParameter
    \/ RefAddRow
    \/ RefWriteCell
    \/ RefWriteRow
    \/ RefClearCell
    \/ RefClearRow
    \/ RefClearColumn
    \/ RefReadColumn
    \/ RefReadCell
    \/ RefReadRow
    \/ Reopen
    \/ Return

SpecRefs == Init /\ [][NextRefs]_vars

----------------------------------------------------------------------------
(* Claims *)

\* every coordinate any of the sheets above can hold, and a margin around
AllCoords == (1..TallRows + 1) \X (1..WideCols + 1)

\* the worksheets hold the same value at every coordinate but those in except
SameValues(ws1, ws2, except) ==
    \A p \in AllCoords \ except : ValueAt(ws1, p[1], p[2]) = ValueAt(ws2, p[1], p[2])

\* read_cell on the worksheet returns the value v (None for an empty cell)
ReadsBack(ws, dk, row, col, v) ==
    LET rd == read_cell(ws, dk, row, col)
    IN  /\ Head(rd.msg) = "Value"
        /\ IF v = NoneV THEN rd.ret.k = "none"
           ELSE rd.ret.k = "val" /\ rd.ret.x = v

Succeeded(op) == call.op = op /\ call.ret.k = "bool" /\ call.ret.x

\* C1: after write_cell(row, col, v) succeeds for a positive integer row and
\* a valid column reference, read_cell(row, col) returns v and every other
\* cell, the anchor (1,1) among them, has the value it had before the call.
C1_WriteCellFrame ==
    (Succeeded("write_cell") /\ call.args[1].t = "int") =>
        /\ ReadsBack(cells, disk, call.args[1], call.args[2], call.args[3])
        /\ SameValues(cells, call.pre,
                      {<<call.args[1].n, get_col_index(call.args[2])>>})

\* a write below the last row of a sheet whose anchor holds a value
C1_Witness ==
    /\ Succeeded("write_cell")
    /\ call.args = <<IntRef(2), StrRef(<<"B">>), B>>
    /\ max_row(call.pre) = 1
    /\ ValueAt(call.pre, 1, 1) = A
    /\ ValueAt(cells, 1, 1) = A

----------------------------------------------------------------------------
(* Claims about process_json_operation, under SpecJson *)

JsonCall == call.op = "process_json_operation"

\* the envelope is a JSON object that names a known function and whose
\* parameters hold every name the function requires
WellFormed(env) ==
    /\ env.j = "object"
    /\ env.named
    /\ env.fname \in FunctionNames
    /\ \/ Required(env.fname) = {}
       \/ env.pk = "object" /\ env.missing \cap Required(env.fname) = {}

\* the method the envelope names, called directly with the envelope's
\* parameter values on the worksheet ws, reports success
OperationSucceeds(env, ws, dk) ==
    LET a == env.a
        f == env.fname
    IN  CASE f = "excel_clear_sheet" -> clear_sheet(ws, dk).ret.x
          [] f = "excel_add_row" -> add_row(ws, dk, a.row_index, a.text).ret.x
          [] f = "excel_write_cell" ->
                write_cell(ws, dk, a.row_index, a.col_index, a.text).ret.x
          [] f = "excel_write_row" -> write_row(ws, dk, a.row_index, a.row_data).ret.x
          [] f = "excel_clear_cell" -> clear_cell(ws, dk, a.row_index, a.col_index).ret.x
          [] f = "excel_clear_row" -> clear_row(ws, dk, a.row_index).ret.x
          [] f = "excel_clear_column" -> clear_column(ws, dk, a.col_index).ret.x
          [] f = "excel_read_header_row" -> read_header_row(ws, dk).ret.k # "none"
          [] f = "excel_read_column" -> read_column(ws, dk, a.col_index).ret.k # "none"
          [] f = "excel_read_cell" ->
                Head(read_cell(ws, dk, a.row_index, a.col_index).msg) = "Value"
          [] f = "excel_read_row" -> read_row(ws, dk, a.row_index).ret.k # "none"
          [] f = "excel_get_column_index_by_header" ->
                get_column_index_by_header(ws, dk, a.header_name).ret.k # "none"
          [] f = "excel_get_row_index_by_value" ->
                get_row_index_by_value(ws, dk, a.col_index, a.search_value).ret.k # "none"
          [] f = "excel_update_cell_by_lookup" ->
                update_cell_by_lookup(ws, dk, a.row_header, a.row_value,
                                      a.col_header, a.new_value).ret.x

\* C2: process_json_operation returns a reward that is 1 or -1; the reward is
\* 1 exactly when the envelope is well formed and the operation it names
\* succeeds on the table the call found; the feedback begins with "Success:"
\* exactly when the reward is 1 and with "Error:" exactly when it is -1.
C2_RewardAndFeedback ==
    JsonCall =>
        /\ call.ret.x \in {1, -1}
        /\ (call.ret.x = 1) <=>
                (WellFormed(call.args[1])
                    /\ OperationSucceeds(call.args[1], call.pre, call.predisk))
        /\ Len(call.msg) > 0
        /\ (Head(call.msg) = "Success:") <=> (call.ret.x = 1)
        /\ (Head(call.msg) = "Error:") <=> (call.ret.x = -1)

\* an update_cell_by_lookup envelope succeeded: the method's own message
\* begins "Successfully updated", the feedback begins "Success:"
C2_Witness ==
    /\ JsonCall
    /\ call.args[1].fname = "excel_update_cell_by_lookup"
    /\ call.ret.x = 1
    /\ call.msg[1] = "Success:"
    /\ call.msg[3] = "Successfully updated cell at row"

\* C3: process_json_operation is total: whatever the envelope (text that is
\* not JSON, JSON that is not an object, parameters that are not an object,
\* parameter values of any type) and whatever the table, the call ends
\* Reported or Rejected and returns a reward and a feedback text.
C3_Total ==
    JsonCall =>
        /\ call.end \in {"Reported", "Rejected"}
        /\ call.ret.k = "reward"
        /\ call.ret.x \in {1, -1}
        /\ Len(call.msg) > 0

\* json.loads gave a number, so "function_name" in data raised TypeError,
\* and the call still returned -1 and a feedback text
C3_Witness ==
    /\ JsonCall
    /\ call.args[1].j = "scalar"
    /\ call.end = "Reported"
    /\ call.ret.x = -1
    /\ call.msg = <<"Error:", "Error processing JSON operation:">>

\* a row reference that is a positive integer (True, the integer 1 to
\* isinstance and to >, among them) or a positive digit string
PositiveRow(ref) ==
    \/ isinstance_int(ref) /\ ref.n > 0
    \/ ref.t = "str" /\ isdigit(ref.s) /\ ~int_raises(ref.s) /\ int(ref.s) > 0

\* a column reference that is a positive integer (True among them), a
\* digit string or a label of one to three letters
ColumnShaped(ref) ==
    \/ isinstance_int(ref) /\ ref.n > 0
    \/ ref.t = "str" /\ isdigit(ref.s)
    \/ ref.t = "str" /\ Len(ref.s) \in 1..3 /\ \A i \in 1..Len(ref.s) : isalpha(ref.s[i])

UnknownFunction(env) ==
    env.j = "object" /\ env.named /\ env.fname \notin FunctionNames

MissingParameter(env) ==
    /\ env.j = "object" /\ env.named /\ Required(env.fname) # {}
    /\ \/ env.pk # "object"
       \/ env.missing \cap Required(env.fname) # {}

\* the sentinel is a row reference everywhere but in excel_write_cell
BadRowIndex(env) ==
    /\ WellFormed(env) /\ "row_index" \in Required(env.fname)
    /\ ~PositiveRow(env.a.row_index)
    /\ env.fname = "excel_write_cell" \/ env.a.row_index # NextAvailable

BadColIndex(env) ==
    /\ WellFormed(env) /\ "col_index" \in Required(env.fname)
    /\ ~ColumnShaped(env.a.col_index)

RejectedAtValidation(env) ==
    UnknownFunction(env) \/ MissingParameter(env) \/ BadRowIndex(env) \/ BadColIndex(env)

\* C4: an envelope that names an unknown function, lacks a required
\* parameter, or carries a row_index or col_index of the wrong shape returns
\* reward -1 and leaves the worksheet and the file exactly as the call found
\* them; for an unknown function the feedback is "Error: Unknown function:
\* <name>".
C4_RejectionLeavesTable ==
    (JsonCall /\ RejectedAtValidation(call.args[1])) =>
        /\ call.ret.x = -1
        /\ cells = call.pre
        /\ disk = call.predisk
        /\ UnknownFunction(call.args[1]) =>
                call.msg = <<"Error:", "Unknown function:", call.args[1].fname>>

\* excel_write_cell with row_index 0 on a sheet that holds a value which the
\* file does not hold yet
C4_Witness ==
    /\ JsonCall
    /\ call.args[1].fname = "excel_write_cell"
    /\ WellFormed(call.args[1])
    /\ call.args[1].a.row_index = IntRef(0)
    /\ call.end = "Rejected"
    /\ call.pre # EmptySheet
    /\ Save(call.pre) # call.predisk

----------------------------------------------------------------------------
(* Claims about the methods called directly, under Spec *)

MutatingOps ==
    {"clear_sheet", "add_row", "write_cell", "write_row", "clear_cell",
     "clear_row", "clear_column", "update_cell_by_lookup"}

Failed(op) == call.op = op /\ call.ret.k = "bool" /\ ~call.ret.x

\* C5: no partial write: when a mutating operation reports failure, every
\* cell of the worksheet holds the value it held before the call and the
\* file is as it was.
C5_NoPartialWrite ==
    \A op \in MutatingOps :
        Failed(op) => SameValues(cells, call.pre, {}) /\ disk = call.predisk

\* C6: whenever a mutating operation returns success, the file holds exactly
\* the values the worksheet holds, so a handler constructed on the file sees
\* the same table.
C6_PersistedEqualsMemory ==
    \A op \in MutatingOps : Succeeded(op) => disk = Save(cells)

\* every mutating operation but clear_sheet saves before it returns success
C6_AllButClearSheetPersist ==
    \A op \in MutatingOps \ {"clear_sheet"} : Succeeded(op) => disk = Save(cells)

----------------------------------------------------------------------------
(* Claims about lookups and row deletion, under SpecTall *)

\* the columns of row 1 that hold the header, and the rows of a column that
\* hold the value
HeaderCols(ws, header) == {c \in 1..max_column(ws) : ValueAt(ws, 1, c) = header}
ValueRows(ws, c, v) == {r \in 1..max_row(ws) : ValueAt(ws, r, c) = v}

\* header H and header H2 occur in row 1 and v occurs in the column headed H
LookupResolves(ws, H, v, H2) ==
    /\ HeaderCols(ws, H) # {}
    /\ HeaderCols(ws, H2) # {}
    /\ ValueRows(ws, Min(HeaderCols(ws, H)), v) # {}

UpdateEnvelope(a) ==
    Env("excel_update_cell_by_lookup",
        [DefaultArgs EXCEPT !.row_header = a[1], !.row_value = a[2],
                            !.col_header = a[3], !.new_value = a[4]])

\* C7: when H and H2 occur in row 1 and v occurs in the column headed H,
\* update_cell_by_lookup(H, v, H2, n) resolves the row and the column the two
\* lookups return (the first row holding v, the first column headed H2) and
\* leaves the worksheet and the file as write_cell(r, c, n) would; for a
\* value n a cell can hold it returns success (reward 1 through the
\* dispatcher), read_cell(r, c) returns n and no other cell changes.
C7_UpdateIsWriteCell ==
    (call.op = "update_cell_by_lookup"
        /\ LookupResolves(call.pre, call.args[1], call.args[2], call.args[3])) =>
    LET pre == call.pre
        cH == Min(HeaderCols(pre, call.args[1]))
        c == Min(HeaderCols(pre, call.args[3]))
        r == Min(ValueRows(pre, cH, call.args[2]))
        n == call.args[4]
        w == write_cell(pre, call.predisk, IntRef(r), IntRef(c), n)
    IN  /\ get_column_index_by_header(pre, call.predisk, call.args[1]).ret = IdxRet(cH)
        /\ get_column_index_by_header(pre, call.predisk, call.args[3]).ret = IdxRet(c)
        /\ get_row_index_by_value(pre, call.predisk, IntRef(cH), call.args[2]).ret = IdxRet(r)
        /\ call.ret = w.ret
        /\ SameValues(cells, w.ws, {})
        /\ disk = w.dk
        /\ Storable(n) =>
            /\ call.ret.x
            /\ process_json_operation(pre, call.predisk, UpdateEnvelope(call.args)).reward = 1
            /\ ReadsBack(cells, disk, IntRef(r), IntRef(c), n)
            /\ SameValues(cells, pre, {<<r, c>>})

\* the key column holds the value twice, in rows 2 and 3, and the update
\* wrote a new value into row 2 of the other column
C7_Witness ==
    /\ Succeeded("update_cell_by_lookup")
    /\ call.args = <<A, B, B, A>>
    /\ ValueAt(call.pre, 1, 1) = A /\ ValueAt(call.pre, 1, 2) = B
    /\ ValueAt(call.pre, 2, 1) = B /\ ValueAt(call.pre, 3, 1) = B
    /\ ValueAt(call.pre, 2, 2) # A
    /\ ValueAt(cells, 2, 2) = A

\* the same call made again on the worksheet and the file the call left
Again ==
    update_cell_by_lookup(cells, disk, call.args[1], call.args[2], call.args[3],
                          call.args[4])

\* C8 as stated: update_cell_by_lookup called twice in a row with the same
\* four arguments leaves, after the second call, the table the first call
\* left, for every table.
C8_Idempotent ==
    call.op = "update_cell_by_lookup" =>
        SameValues(Again.ws, cells, {}) /\ Again.dk = disk

\* the call wrote below the header row and outside the key column, or wrote
\* the value the cell already held
LookupIntact ==
    LET pre == call.pre
        cH == Min(HeaderCols(pre, call.args[1]))
        c == Min(HeaderCols(pre, call.args[3]))
        r == Min(ValueRows(pre, cH, call.args[2]))
    IN  (r > 1 /\ c # cH) \/ ValueAt(pre, r, c) = call.args[4]

\* C8 amended: the second call leaves the table the first call left whenever
\* the first call failed, or wrote below the header row and outside the key
\* column, or wrote the value the cell already held; after a successful first
\* call of that kind the second call succeeds too and the cell the first call
\* resolved still holds the new value.
C8_IdempotentWhenLookupIntact ==
    /\ Failed("update_cell_by_lookup") =>
            SameValues(Again.ws, cells, {}) /\ Again.dk = disk /\ ~Again.ret.x
    /\ (Succeeded("update_cell_by_lookup") /\ LookupIntact) =>
            /\ SameValues(Again.ws, cells, {}) /\ Again.dk = disk /\ Again.ret.x
            /\ LET cH == Min(HeaderCols(call.pre, call.args[1]))
               IN  ValueAt(Again.ws, Min(ValueRows(call.pre, cH, call.args[2])),
                           Min(HeaderCols(call.pre, call.args[3]))) = call.args[4]

\* rows 2 and 3 both hold the key, the headers differ, and the update put a
\* new value in row 2; made again it resolves row 2 again
C8_Witness ==
    /\ Succeeded("update_cell_by_lookup")
    /\ call.args = <<A, B, B, A>>
    /\ HeaderCols(call.pre, A) = {1} /\ HeaderCols(call.pre, B) = {2}
    /\ ValueRows(call.pre, 1, B) = {2, 3}
    /\ ValueAt(call.pre, 2, 2) = B
    /\ ValueAt(cells, 2, 2) = A /\ ValueAt(cells, 3, 2) # A
    /\ LookupIntact
    /\ Again.ret.x

\* the row a successful clear_row deleted
ClearedRow == get_actual_row_index(call.pre, call.args[1])

\* every row below r has moved up by one and every row above r is unchanged
RowsShiftedUp(r) ==
    \A p \in AllCoords :
        ValueAt(cells, p[1], p[2]) =
            IF p[1] < r THEN ValueAt(call.pre, p[1], p[2])
            ELSE ValueAt(call.pre, p[1] + 1, p[2])

\* C9 as stated: after clear_row(r) succeeds, read_row(r) returns what
\* read_row(r+1) returned before the call, every row below r has moved up by
\* one and every row above r is unchanged.
C9_ClearRowDeletes ==
    Succeeded("clear_row") =>
        /\ read_row(cells, disk, IntRef(ClearedRow)).ret
                = read_row(call.pre, call.predisk, IntRef(ClearedRow + 1)).ret
        /\ RowsShiftedUp(ClearedRow)

\* the rows do shift: cell by cell, every row below r has moved up by one and
\* every row above r is unchanged; and read_row agrees whenever the deleted
\* row was not the only row of the worksheet
C9_RowsShift ==
    Succeeded("clear_row") =>
        /\ RowsShiftedUp(ClearedRow)
        /\ max_row(call.pre) > 1 =>
                read_row(cells, disk, IntRef(ClearedRow)).ret
                    = read_row(call.pre, call.predisk, IntRef(ClearedRow + 1)).ret

----------------------------------------------------------------------------
(* Claims about column deletion, under SpecWide *)

\* the column a reference names: an integer is the column, a digit string is
\* the number it spells, a letter is its place in the alphabet
NamedColumn(ref) ==
    IF ref.t = "int" THEN ref.n
    ELSE IF isdigit(ref.s) THEN IndexOf(Digits, ref.s[1]) - 1
    ELSE IF ref.s[1] \in Range(UpperCase) THEN IndexOf(UpperCase, ref.s[1])
    ELSE IndexOf(LowerCase, ref.s[1])

\* C10: after clear_column(c) succeeds, in every row the value that was in a
\* column k > c is in column k - 1 and every column left of c is unchanged,
\* whether c is given as an integer, a digit string or a letter.
C10_ClearColumnDeletes ==
    Succeeded("clear_column") =>
        \A p \in AllCoords :
            ValueAt(cells, p[1], p[2]) =
                IF p[2] < NamedColumn(call.args[1])
                THEN ValueAt(call.pre, p[1], p[2])
                ELSE ValueAt(call.pre, p[1], p[2] + 1)

\* column "a" deleted from a sheet of three columns: the headers that were in
\* columns 2 and 3 are in columns 1 and 2
C10_Witness ==
    /\ Succeeded("clear_column")
    /\ call.args[1] = StrRef(<<"a">>)
    /\ ValueAt(call.pre, 1, 1) = A
    /\ ValueAt(call.pre, 1, 2) = B
    /\ ValueAt(call.pre, 1, 3) = A
    /\ ValueAt(call.pre, 2, 3) = B
    /\ ValueAt(cells, 1, 1) = B /\ ValueAt(cells, 1, 2) = A /\ ValueAt(cells, 2, 2) = B
    /\ ValueAt(cells, 1, 3) = NoneV

----------------------------------------------------------------------------
(* Claims about inserted rows, under SpecRows *)

\* C11: add_row with row_index "next_available" resolves the sentinel
\* against the worksheet at call time: the call places its text in column 1
\* of row m + 1, where m is the maximum row the worksheet reports before the
\* call, changes no value that was there and raises the maximum row to
\* m + 1, so that the call made next places its text in row m + 2, still
\* leaving every earlier value and the first text where they were.
C11_NextAvailableAppends ==
    (Succeeded("add_row") /\ call.args[1] = NextAvailable) =>
        LET m == max_row(call.pre)
            t1 == call.args[2]
        IN  /\ ValueAt(cells, m + 1, 1) = t1
            /\ SameValues(cells, call.pre, {<<m + 1, 1>>})
            /\ max_row(cells) = m + 1
            /\ \A t2 \in {A, B, NoneV} :
                    LET nxt == add_row(cells, disk, NextAvailable, t2)
                    IN  /\ nxt.ret.x
                        /\ ValueAt(nxt.ws, m + 1, 1) = t1
                        /\ ValueAt(nxt.ws, m + 2, 1) = t2
                        /\ SameValues(nxt.ws, call.pre, {<<m + 1, 1>>, <<m + 2, 1>>})
                        /\ max_row(nxt.ws) = m + 2

\* the sheet held two rows, the second one itself appended below the first,
\* and the text went to row 3
C11_Witness ==
    /\ Succeeded("add_row")
    /\ call.args = <<NextAvailable, A>>
    /\ ValueAt(call.pre, 1, 1) = A /\ ValueAt(call.pre, 1, 2) = B
    /\ ValueAt(call.pre, 2, 1) = B /\ ValueAt(call.pre, 2, 2) = NoneV
    /\ max_row(call.pre) = 2
    /\ ValueAt(cells, 3, 1) = A
    /\ ValueAt(cells, 2, 1) = B

\* the row a reference names: an integer is the row, a digit string is the
\* number it spells
NamedRow(ref) == IF ref.t = "int" THEN ref.n ELSE IndexOf(Digits, ref.s[1]) - 1

\* C12: after add_row(r, text) succeeds for a positive row r, cell (r, 1)
\* holds text and the rest of row r is empty, every row that was at an index
\* >= r is at index + 1 with its values, and every row above r is unchanged.
C12_AddRowInserts ==
    (Succeeded("add_row") /\ PositiveRow(call.args[1])) =>
        \A p \in AllCoords :
            ValueAt(cells, p[1], p[2]) =
                IF p[1] < NamedRow(call.args[1]) THEN ValueAt(call.pre, p[1], p[2])
                ELSE IF p[1] > NamedRow(call.args[1])
                THEN ValueAt(call.pre, p[1] - 1, p[2])
                ELSE IF p[2] = 1 THEN call.args[2] ELSE NoneV

\* a row inserted at index 1 of a sheet of two full rows
C12_Witness ==
    /\ Succeeded("add_row")
    /\ call.args = <<IntRef(1), B>>
    /\ ValueAt(call.pre, 1, 1) = A /\ ValueAt(call.pre, 1, 2) = B
    /\ ValueAt(call.pre, 2, 1) = B /\ ValueAt(call.pre, 2, 2) = A
    /\ ValueAt(cells, 1, 1) = B /\ ValueAt(cells, 1, 2) = NoneV
    /\ ValueAt(cells, 2, 1) = A /\ ValueAt(cells, 2, 2) = B
    /\ ValueAt(cells, 3, 1) = B /\ ValueAt(cells, 3, 2) = A

----------------------------------------------------------------------------
(* Claims about write_row and about digit-string rows, under Spec *)

\* C13: after write_row(r, values) succeeds for a list of values, cell
\* (r, i) holds values[i] for every i up to len(values), read_row(r) begins
\* with values, and every other cell holds what it held: the columns of row
\* r beyond len(values) and every other row.
C13_WriteRowFrame ==
    (Succeeded("write_row") /\ call.args[2].k = "list") =>
        LET r == call.args[1].n
            values == call.args[2].x
            rd == read_row(cells, disk, call.args[1])
        IN  /\ \A i \in 1..Len(values) : ValueAt(cells, r, i) = values[i]
            /\ SameValues(cells, call.pre, {<<r, i>> : i \in 1..Len(values)})
            /\ Len(values) > 0 =>
                    /\ rd.ret.k = "list"
                    /\ Len(rd.ret.x) >= Len(values)
                    /\ SubSeq(rd.ret.x, 1, Len(values)) = values

\* one value written to row 2 of a sheet whose row 2 held values in both
\* columns: column 2 keeps its value
C13_Witness ==
    /\ Succeeded("write_row")
    /\ call.args = <<IntRef(2), ListData(<<A>>)>>
    /\ ValueAt(call.pre, 1, 1) = A /\ ValueAt(call.pre, 1, 2) = A
    /\ ValueAt(call.pre, 2, 1) = B /\ ValueAt(call.pre, 2, 2) = B
    /\ ValueAt(cells, 2, 1) = A /\ ValueAt(cells, 2, 2) = B
    /\ ValueAt(cells, 1, 1) = A /\ ValueAt(cells, 1, 2) = A

WriteRowEnvelope(args) ==
    Env("excel_write_row",
        [DefaultArgs EXCEPT !.row_index = args[1], !.row_data = args[2]])

\* write_row, directly and through its envelope, reports failure and leaves
\* the worksheet and the file as the call found them
WriteRowRefused ==
    LET j == process_json_operation(call.pre, call.predisk, WriteRowEnvelope(call.args))
    IN  /\ ~call.ret.x
        /\ cells = call.pre
        /\ disk = call.predisk
        /\ j.reward = -1
        /\ j.ws = call.pre
        /\ j.dk = call.predisk

\* C14: when row_data is a string, a scalar or a mapping, write_row called
\* directly or through the excel_write_row envelope reports failure (reward
\* -1) and writes nothing.
C14_OnlySequencesWritten ==
    (call.op = "write_row" /\ call.args[2].k \in {"str", "scalar", "dict"}) =>
        WriteRowRefused

\* a string and a scalar are refused
C14_StringsAndScalarsRefused ==
    (call.op = "write_row" /\ call.args[2].k \in {"str", "scalar"}) =>
        WriteRowRefused

RowAddressed ==
    {"add_row", "write_cell", "write_row", "clear_cell", "clear_row",
     "read_cell", "read_row"}

\* the method of the last call, applied to the worksheet and the file the
\* call found with row_index ref and the call's other arguments
WithRow(ref) ==
    LET a == call.args
    IN  CASE call.op = "add_row" -> add_row(call.pre, call.predisk, ref, a[2])
          [] call.op = "write_cell" -> write_cell(call.pre, call.predisk, ref, a[2], a[3])
          [] call.op = "write_row" -> write_row(call.pre, call.predisk, ref, a[2])
          [] call.op = "clear_cell" -> clear_cell(call.pre, call.predisk, ref, a[2])
          [] call.op = "clear_row" -> clear_row(call.pre, call.predisk, ref)
          [] call.op = "read_cell" -> read_cell(call.pre, call.predisk, ref, a[2])
          [] call.op = "read_row" -> read_row(call.pre, call.predisk, ref)

\* the call returned what the same call with the integer row returns, and
\* left the worksheet and the file that call leaves
SameAsIntegerRow ==
    LET w == WithRow(IntRef(int(call.args[1].s)))
    IN  /\ call.ret.k = w.ret.k
        /\ call.ret = w.ret
        /\ cells = w.ws
        /\ disk = w.dk

DigitStringRow(ops) ==
    /\ call.op \in ops
    /\ call.args[1].t = "str"
    /\ isdigit(call.args[1].s)
    /\ ~int_raises(call.args[1].s)
    /\ int(call.args[1].s) >= 1

\* C15: for every row-addressed operation (add_row, write_cell, write_row,
\* clear_cell, clear_row, read_cell, read_row) and every n >= 1, the call
\* with row_index str(n) gives the same result and the same resulting table
\* as the call with the integer n.
C15_DigitStringRow ==
    DigitStringRow(RowAddressed) => SameAsIntegerRow

\* add_row, write_cell, clear_row and read_row convert a digit string
C15_ConvertingOperations ==
    DigitStringRow({"add_row", "write_cell", "clear_row", "read_row"}) => SameAsIntegerRow

----------------------------------------------------------------------------
(* Claims about column references, under SpecCols *)

\* the references that name column n: the integer, its digit string and its
\* letter label in either case
Labelled(n) ==
    CASE n = 1 -> {IntRef(1), StrRef(<<"1">>), StrRef(<<"A">>), StrRef(<<"a">>)}
      [] n = 2 -> {IntRef(2), StrRef(<<"2">>), StrRef(<<"B">>), StrRef(<<"b">>)}
      [] n = 26 -> {IntRef(26), StrRef(<<"2", "6">>), StrRef(<<"Z">>), StrRef(<<"z">>)}
      [] n = 27 -> {IntRef(27), StrRef(<<"2", "7">>), StrRef(<<"A", "A">>),
                    StrRef(<<"a", "a">>), StrRef(<<"a", "A">>)}

ColumnAddressed ==
    {"write_cell", "clear_cell", "clear_column", "read_column", "read_cell",
     "get_row_index_by_value"}

\* the col_index of the last call
ColumnArg == IF call.op \in {"write_cell", "clear_cell", "read_cell"}
             THEN call.args[2] ELSE call.args[1]

\* the method of the last call, applied to the worksheet and the file the
\* call found with col_index ref and the call's other arguments
WithColumn(ref) ==
    LET a == call.args
    IN  CASE call.op = "write_cell" -> write_cell(call.pre, call.predisk, a[1], ref, a[3])
          [] call.op = "clear_cell" -> clear_cell(call.pre, call.predisk, a[1], ref)
          [] call.op = "clear_column" -> clear_column(call.pre, call.predisk, ref)
          [] call.op = "read_column" -> read_column(call.pre, call.predisk, ref)
          [] call.op = "read_cell" -> read_cell(call.pre, call.predisk, a[1], ref)
          [] call.op = "get_row_index_by_value" ->
                get_row_index_by_value(call.pre, call.predisk, ref, a[2])

SameAsIntegerColumn(n) ==
    LET w == WithColumn(IntRef(n))
    IN  /\ call.ret.k = w.ret.k
        /\ call.ret = w.ret
        /\ cells = w.ws
        /\ disk = w.dk

\* the call failed on its column and left the worksheet and the file alone
RefusedColumn ==
    /\ call.ret.k \in {"bool", "none"}
    /\ call.ret.k = "bool" => ~call.ret.x
    /\ call.msg = <<"Invalid column index">>
    /\ cells = call.pre
    /\ disk = call.predisk

\* C16: "A" resolves to column 1, "Z" to 26 and "AA" to 27; in every
\* operation that takes a column, the integer n, the digit string of n and
\* the letter label of n in either case give the result and the table that
\* the integer n gives; and a non-positive integer, "0", the empty string and
\* a string holding a character that is neither letter nor digit are refused
\* as an invalid column, with no change to the worksheet or the file.
C16_ColumnResolution ==
    /\ get_col_index(StrRef(<<"A">>)) = 1
    /\ get_col_index(StrRef(<<"Z">>)) = 26
    /\ get_col_index(StrRef(<<"A", "A">>)) = 27
    /\ call.op \in ColumnAddressed =>
        /\ \A n \in {1, 2, 26, 27} : ColumnArg \in Labelled(n) => SameAsIntegerColumn(n)
        /\ ColumnArg \in NotColumns => RefusedColumn
        /\ ColumnArg \in NotColumns \/ \E n \in {1, 2, 26, 27} : ColumnArg \in Labelled(n)

\* a value written to column "aa" of a sheet that holds a value in column 26
C16_Witness ==
    /\ Succeeded("write_cell")
    /\ call.args = <<IntRef(1), StrRef(<<"a", "a">>), B>>
    /\ ValueAt(call.pre, 1, 26) = A
    /\ ValueAt(call.pre, 1, 27) = NoneV
    /\ ValueAt(cells, 1, 27) = B
    /\ ValueAt(cells, 1, 26) = A

----------------------------------------------------------------------------
(* Claims about the two lookups, under SpecHeaders and SpecValues *)

HeaderEnvelope(h) ==
    Env("excel_get_column_index_by_header", [DefaultArgs EXCEPT !.header_name = h])

\* C17: get_column_index_by_header(h) returns the index of the first column,
\* left to right, whose row-1 value is exactly h (another case or a leading
\* blank is another name); when no row-1 value is h it returns no index,
\* and the dispatcher gives reward -1 and a feedback that holds "not found".
C17_FirstExactHeader ==
    call.op = "get_column_index_by_header" =>
        LET h == call.args[1]
            j == process_json_operation(call.pre, call.predisk, HeaderEnvelope(h))
        IN  IF HeaderCols(call.pre, h) # {}
            THEN /\ call.ret.k = "idx"
                 /\ call.ret.x = Min(HeaderCols(call.pre, h))
                 /\ j.reward = 1
            ELSE /\ call.ret.k = "none"
                 /\ "not found" \in Range(call.msg)
                 /\ j.reward = -1
                 /\ "not found" \in Range(j.feedback)

\* the header row is "A", "a", "a": looking up "a" returns column 2
C17_Witness ==
    /\ call.op = "get_column_index_by_header"
    /\ call.args = <<A>>
    /\ ValueAt(call.pre, 1, 1) = UpperA
    /\ ValueAt(call.pre, 1, 2) = A
    /\ ValueAt(call.pre, 1, 3) = A
    /\ call.ret = IdxRet(2)

\* the header row holds " a" and "A" only: looking up "a" finds nothing
C17_WitnessNotFound ==
    /\ call.op = "get_column_index_by_header"
    /\ call.args = <<A>>
    /\ ValueAt(call.pre, 1, 1) = PaddedA
    /\ ValueAt(call.pre, 1, 2) = UpperA
    /\ call.ret = NoneRet

ValueEnvelope(col, v) ==
    Env("excel_get_row_index_by_value",
        [DefaultArgs EXCEPT !.col_index = col, !.search_value = v])

\* the rows of column 1 that hold a value whose str() is the str() of s
MatchingRows(ws, s) ==
    {r \in 1..TallRows : ValueAt(ws, r, 1) # NoneV /\ Str(ValueAt(ws, r, 1)) = Str(s)}

\* C18: get_row_index_by_value(col, s) returns the smallest row index whose
\* cell holds a value whose string representation is str(s), so that a
\* number matches the string of its digits and the other way round, and the
\* first of several matching rows wins; when no cell matches it returns no
\* index, and the dispatcher gives reward -1.
C18_FirstMatchingRow ==
    call.op = "get_row_index_by_value" =>
        LET s == call.args[2]
            j == process_json_operation(call.pre, call.predisk,
                                        ValueEnvelope(call.args[1], s))
        IN  IF MatchingRows(call.pre, s) # {}
            THEN /\ call.ret.k = "idx"
                 /\ call.ret.x = Min(MatchingRows(call.pre, s))
                 /\ j.reward = 1
            ELSE /\ call.ret.k = "none"
                 /\ "not found in column" \in Range(call.msg)
                 /\ j.reward = -1

\* the column holds "a", the number 5 and the string "5": looking up the
\* string "5" returns row 2, the row of the number
C18_Witness ==
    /\ call.op = "get_row_index_by_value"
    /\ call.args = <<StrRef(<<"A">>), FiveText>>
    /\ ValueAt(call.pre, 1, 1) = A
    /\ ValueAt(call.pre, 2, 1) = Five
    /\ ValueAt(call.pre, 3, 1) = FiveText
    /\ call.ret = IdxRet(2)

----------------------------------------------------------------------------
(* Claims about clear_cell and clear_sheet, under Spec *)

\* the call emptied the cell it addressed and changed no other value
ClearedOneCell ==
    /\ ReadsBack(cells, disk, call.args[1], call.args[2], NoneV)
    /\ SameValues(cells, call.pre,
                  {<<call.args[1].n, get_col_index(call.args[2])>>})

SameExtent ==
    /\ max_row(cells) = max_row(call.pre)
    /\ max_column(cells) = max_column(call.pre)

\* C19: after clear_cell(row, col) succeeds, read_cell(row, col) returns the
\* empty marker, every other cell is unchanged, and the extent of the table
\* (its maximum row and maximum column) is what it was before the call.
C19_ClearCellFrame ==
    Succeeded("clear_cell") => ClearedOneCell /\ SameExtent

\* the values are as claimed for every cell addressed, and the extent is
\* kept when the cell addressed lies within it
C19_ClearCellWithinExtent ==
    Succeeded("clear_cell") =>
        /\ ClearedOneCell
        /\ (call.args[1].n <= max_row(call.pre)
                /\ get_col_index(call.args[2]) <= max_column(call.pre)) => SameExtent

\* C20: after clear_sheet succeeds, whatever the table held, every cell
\* reads as empty, the sheet reports a maximum row of 1, and
\* get_column_index_by_header finds none of the header names that row 1
\* held before.
C20_ClearSheetEmpties ==
    Succeeded("clear_sheet") =>
        /\ \A p \in AllCoords : ReadsBack(cells, disk, IntRef(p[1]), IntRef(p[2]), NoneV)
        /\ max_row(cells) = 1
        /\ \A c \in 1..max_column(call.pre) :
                ValueAt(call.pre, 1, c) # NoneV =>
                    get_column_index_by_header(cells, disk, ValueAt(call.pre, 1, c)).ret.k
                        = "none"

\* a sheet of two headers and a full second row was cleared
C20_Witness ==
    /\ Succeeded("clear_sheet")
    /\ ValueAt(call.pre, 1, 1) = A /\ ValueAt(call.pre, 1, 2) = B
    /\ ValueAt(call.pre, 2, 1) = B /\ ValueAt(call.pre, 2, 2) = A
    /\ get_column_index_by_header(call.pre, call.predisk, B).ret = IdxRet(2)
    /\ cells = EmptySheet
----------------------------------------------------------------------------
(* Claims about the read operations, under Spec *)

ReadRowEnvelope(row) ==
    Env("excel_read_row", [DefaultArgs EXCEPT !.row_index = row])

ReadColumnEnvelope(col) ==
    Env("excel_read_column", [DefaultArgs EXCEPT !.col_index = col])

ReadCellEnvelope(row, col) ==
    Env("excel_read_cell", [DefaultArgs EXCEPT !.row_index = row, !.col_index = col])

\* C21: read_header_row on a brand-new table (a handler constructed on a
\* missing file, or a table just cleared by clear_sheet) returns an empty
\* sequence with a message of its own that says the sheet is empty, and on
\* every other table it returns the sequence read_row(1) returns.
C21_HeaderRowOfNewTable ==
    call.op = "read_header_row" =>
        IF call.pre = EmptySheet
        THEN /\ call.ret.k = "list"
             /\ call.ret.x = <<>>
             /\ call.msg # <<"Header row read successfully">>
        ELSE LET rd == read_row(call.pre, call.predisk, IntRef(1))
             IN  call.ret.k = rd.ret.k /\ call.ret = rd.ret

\* on every table, the brand-new one included, read_header_row returns the
\* sequence read_row(1) returns, which has at least one element, with the
\* message of a successful read
C21_HeaderRowIsRowOne ==
    call.op = "read_header_row" =>
        LET rd == read_row(call.pre, call.predisk, IntRef(1))
        IN  /\ call.ret.k = "list" /\ rd.ret.k = "list"
            /\ call.ret.x = rd.ret.x
            /\ Len(call.ret.x) >= 1
            /\ call.msg = <<"Header row read successfully">>

\* the call addressed a positive integer row and a column that resolves
ReadCellAddressed ==
    /\ call.op = "read_cell"
    /\ call.args[1].t = "int" /\ call.args[1].n >= 1
    /\ get_col_index(call.args[2]) # NoneIdx

\* what read_cell returns for a cell that exists and holds no value
EmptyMarker ==
    /\ call.ret.k = "none"
    /\ call.msg = <<"Value", Str(NoneV), "read from">>

\* C22: read_cell never fails for a positive integer row and a valid
\* column; for a cell within the current extent that holds no value it
\* returns the empty marker, and for a row beyond the current extent it
\* returns an out-of-range signal that differs from the empty marker.
C22_OutOfRangeDistinct ==
    ReadCellAddressed =>
        LET r == call.args[1].n
            c == get_col_index(call.args[2])
            j == process_json_operation(call.pre, call.predisk,
                                        ReadCellEnvelope(call.args[1], call.args[2]))
        IN  /\ Head(call.msg) = "Value"
            /\ j.reward = 1
            /\ (r <= max_row(call.pre) /\ c <= max_column(call.pre)
                    /\ ValueAt(call.pre, r, c) = NoneV) => EmptyMarker
            /\ r > max_row(call.pre) => ~EmptyMarker

\* read_cell never fails for such a call, and returns the empty marker for
\* every cell that holds no value, within the extent or beyond it
C22_EmptyMarkerEverywhere ==
    ReadCellAddressed =>
        LET r == call.args[1].n
            c == get_col_index(call.args[2])
            j == process_json_operation(call.pre, call.predisk,
                                        ReadCellEnvelope(call.args[1], call.args[2]))
        IN  /\ Head(call.msg) = "Value"
            /\ j.reward = 1
            /\ ValueAt(call.pre, r, c) = NoneV => EmptyMarker
            /\ ValueAt(call.pre, r, c) # NoneV => call.ret = ValRet(ValueAt(call.pre, r, c))

\* the row or the column the call reads, when the reference resolves
ReadRowAddressed ==
    /\ call.op = "read_row"
    /\ call.args[1].t = "int" /\ call.args[1].n >= 1

ReadColumnAddressed ==
    /\ call.op = "read_column"
    /\ get_col_index(call.args[1]) # NoneIdx

EmptySequence == call.ret.k = "list" /\ call.ret.x = <<>>

\* C23: read_row(r) and read_column(c) return an empty sequence, and reward
\* 1 through the dispatcher, whenever row r or column c holds no value, a
\* row or column within the current extent of the table included.
C23_EmptyForUnpopulated ==
    /\ (ReadRowAddressed
            /\ \A p \in AllCoords : p[1] = call.args[1].n =>
                    ValueAt(call.pre, p[1], p[2]) = NoneV) =>
          /\ EmptySequence
          /\ process_json_operation(call.pre, call.predisk,
                                    ReadRowEnvelope(call.args[1])).reward = 1
    /\ (ReadColumnAddressed
            /\ \A p \in AllCoords : p[2] = get_col_index(call.args[1]) =>
                    ValueAt(call.pre, p[1], p[2]) = NoneV) =>
          /\ EmptySequence
          /\ process_json_operation(call.pre, call.predisk,
                                    ReadColumnEnvelope(call.args[1])).reward = 1

\* neither read is an error; read_row returns the empty sequence exactly for
\* a row beyond the maximum row and otherwise one element per column, and
\* read_column returns one element per row, so never the empty sequence
C23_EmptyOnlyBeyondLastRow ==
    /\ ReadRowAddressed =>
          /\ call.ret.k = "list"
          /\ IF call.args[1].n > max_row(call.pre)
             THEN call.ret.x = <<>>
             ELSE Len(call.ret.x) = max_column(call.pre)
          /\ process_json_operation(call.pre, call.predisk,
                                    ReadRowEnvelope(call.args[1])).reward = 1
    /\ ReadColumnAddressed =>
          /\ call.ret.k = "list"
          /\ Len(call.ret.x) = max_row(call.pre)
          /\ process_json_operation(call.pre, call.predisk,
                                    ReadColumnEnvelope(call.args[1])).reward = 1
----------------------------------------------------------------------------
(* Claims about the steps of update_cell_by_lookup, under SpecTall *)

\* the call failed with the message of one step, naming what was not found
FailedAt(step, what) ==
    /\ call.ret.k = "bool" /\ ~call.ret.x
    /\ call.msg[1] = step
    /\ call.msg[2] = Str(what)

\* nothing was written: every value and the file are as the call found them
NothingWritten ==
    /\ SameValues(cells, call.pre, {})
    /\ disk = call.predisk

\* C24: update_cell_by_lookup resolves (a) the column of row_header, (b) the
\* column of col_header, (c) the row of row_value, then (d) writes, and stops
\* at the first step that fails: the failure reported is that of the
\* earliest failing step (row_header when both headers are absent), the
\* worksheet is as the steps up to that one leave it, and the write happens
\* only when (a), (b) and (c) have all succeeded.
C24_FourStepOrder ==
    call.op = "update_cell_by_lookup" =>
    LET pre == call.pre
        rh == call.args[1]
        rv == call.args[2]
        ch == call.args[3]
        nv == call.args[4]
        headers == sheet_row(pre, 1)
    IN  IF HeaderCols(pre, rh) = {}
        THEN /\ FailedAt("Could not find column with header", rh)
             /\ NothingWritten
             /\ cells = headers
        ELSE IF HeaderCols(pre, ch) = {}
        THEN /\ FailedAt("Could not find column with header", ch)
             /\ NothingWritten
             /\ cells = headers
        ELSE IF ValueRows(pre, Min(HeaderCols(pre, rh)), rv) = {}
        THEN /\ FailedAt("Could not find row with value", rv)
             /\ NothingWritten
             /\ cells = sheet_col(headers, Min(HeaderCols(pre, rh)))
        ELSE LET cH == Min(HeaderCols(pre, rh))
                 w == write_cell(sheet_col(headers, cH), call.predisk,
                                 IntRef(Min(ValueRows(pre, cH, rv))),
                                 IntRef(Min(HeaderCols(pre, ch))), nv)
             IN  /\ call.ret.k = "bool"
                 /\ call.ret.x = w.ret.x
                 /\ cells = w.ws
                 /\ disk = w.dk
                 /\ call.msg[1] = IF w.ret.x THEN "Successfully updated cell at row"
                                  ELSE "Failed to write to cell at row"

\* neither header is in row 1 while the value is in column 1: the failure
\* names row_header, and the column that holds the value was not read
C24_Witness ==
    /\ call.op = "update_cell_by_lookup"
    /\ call.args[1] = A /\ call.args[2] = A /\ call.args[3] = B
    /\ HeaderCols(call.pre, A) = {} /\ HeaderCols(call.pre, B) = {}
    /\ ValueAt(call.pre, 3, 1) = A
    /\ <<2, 1>> \notin DOMAIN call.pre
    /\ FailedAt("Could not find column with header", A)
    /\ <<2, 1>> \notin DOMAIN cells

\* the key column has its header and not the value, the other header is
\* absent: the failure is that of step (b), not of step (c)
C24_WitnessSecondStep ==
    /\ call.op = "update_cell_by_lookup"
    /\ call.args[1] = A /\ call.args[2] = B /\ call.args[3] = B
    /\ ValueAt(call.pre, 1, 1) = A
    /\ HeaderCols(call.pre, B) = {}
    /\ ValueRows(call.pre, 1, B) = {}
    /\ FailedAt("Could not find column with header", B)
----------------------------------------------------------------------------
(* Two update_cell_by_lookup calls with an operation between them that     *)
(* shifts rows or columns: a sheet of three rows and three columns, whose  *)
(* caller keeps the update that has just succeeded.                        *)

\* the call returns; the caller keeps it when it is a successful one of ops
ReturnKeeping(ops) ==
    /\ call.op # "idle"
    /\ prev' = IF call.op \in ops /\ call.ret.k = "bool" /\ call.ret.x
               THEN call ELSE Idle
    /\ call' = Idle
    /\ UNCHANGED <<cells, disk, peer>>

Labels == {A, B}

\* the cells of the worksheet that hold a value
Populated(ws) == {p \in DOMAIN ws : value(ws[p]) # NoneV}

\* a call on a sheet that holds at most MaxValues values when it returns
CalledSparse(op, args, r) ==
    /\ call.op = "idle"
    /\ Cardinality(Populated(r.ws)) <= MaxValues
    /\ Called(TallRows, WideCols, op, args, r)

\* the header row is filled with "a" and "b", the rows below with "b"
FillCell ==
    \E row \in GridRows(TallRows), col \in GridCols(WideCols) :
      \E text \in IF row = IntRef(1) THEN Labels ELSE {B} :
        CalledSparse("write_cell", <<row, col, text>>,
                     write_cell(cells, disk, row, col, text))

ShiftClearRow ==
    \E row \in GridRows(TallRows) :
        CalledSparse("clear_row", <<row>>, clear_row(cells, disk, row))

ShiftAddRow ==
    \E row \in GridRows(TallRows) \cup {NextAvailable}, text \in Labels \cup {NoneV} :
        CalledSparse("add_row", <<row, text>>, add_row(cells, disk, row, text))

ShiftClearColumn ==
    \E col \in GridCols(WideCols) :
        CalledSparse("clear_column", <<col>>, clear_column(cells, disk, col))

\* the update looks up the headers "a" and "b" and the key "b"
KeyedUpdate ==
    \E nv \in Labels :
        CalledSparse("update_cell_by_lookup", <<A, B, B, nv>>,
                     update_cell_by_lookup(cells, disk, A, B, B, nv))

NextLookups ==
    \/ FillCell
    \/ ShiftClearRow
    \/ ShiftAddRow
    \/ ShiftClearColumn
    \/ KeyedUpdate
    \/ ReturnKeeping({"update_cell_by_lookup"})

SpecLookups == Init /\ [][NextLookups]_vars

----------------------------------------------------------------------------
(* Claims about lookups after a shift, under SpecLookups *)

\* the caller kept a successful update, and the call after it was a
\* successful clear_row, add_row or clear_column
ShiftedAfterUpdate ==
    /\ prev.op = "update_cell_by_lookup"
    /\ call.op \in {"clear_row", "add_row", "clear_column"}
    /\ call.ret.k = "bool" /\ call.ret.x

\* the update with the keys of the kept one, made on what the shift left
SecondUpdate ==
    update_cell_by_lookup(cells, disk, prev.args[1], prev.args[2], prev.args[3],
                          prev.args[4])

\* the cell the kept update resolved
FirstKeyColumn == Min(HeaderCols(prev.pre, prev.args[1]))
FirstColumn == Min(HeaderCols(prev.pre, prev.args[3]))
FirstRow == Min(ValueRows(prev.pre, FirstKeyColumn, prev.args[2]))

\* the row insert_rows is called with
InsertedAt ==
    IF call.args[1] = NextAvailable THEN max_row(call.pre) + 1 ELSE call.args[1].n

\* where the shift moved the keyed row and the headed column to, <<0, 0>>
\* when it removed the row, a header or the header row, or put a new first
\* match above the keyed row
MovedTo ==
    LET r1 == FirstRow
        c1 == FirstColumn
        cH == FirstKeyColumn
        k == call.args[1].n
    IN  IF r1 = 1 \/ c1 = cH THEN <<0, 0>>
        ELSE CASE call.op = "clear_row" ->
                    IF k = 1 \/ k = r1 THEN <<0, 0>>
                    ELSE IF k < r1 THEN <<r1 - 1, c1>> ELSE <<r1, c1>>
               [] call.op = "add_row" ->
                    IF InsertedAt = 1 THEN <<0, 0>>
                    ELSE IF InsertedAt > r1 THEN <<r1, c1>>
                    ELSE IF cH = 1 /\ call.args[2] = prev.args[2] THEN <<0, 0>>
                    ELSE <<r1 + 1, c1>>
               [] call.op = "clear_column" ->
                    IF k = cH \/ k = c1 THEN <<0, 0>>
                    ELSE IF k < c1 THEN <<r1, c1 - 1>> ELSE <<r1, c1>>

\* the second update wrote new_value into the cell and changed no other
WroteOnlyAt(p) ==
    /\ SecondUpdate.ret.x
    /\ ValueAt(SecondUpdate.ws, p[1], p[2]) = prev.args[4]
    /\ SameValues(SecondUpdate.ws, cells, {p})
    /\ SecondUpdate.dk = Save(SecondUpdate.ws)

\* C25: the row and the column are looked up anew by every
\* update_cell_by_lookup call: when a clear_row, add_row or clear_column
\* between two calls with the same keys has shifted the keyed row or the
\* headed column, the second call writes to the cell where they are now and
\* not to the coordinates the first call resolved; it writes to the cell the
\* lookups resolve in the table as it is, and writes nothing when they fail.
C25_LookupRecomputed ==
    ShiftedAfterUpdate =>
        /\ MovedTo # <<0, 0>> => WroteOnlyAt(MovedTo)
        /\ IF LookupResolves(cells, prev.args[1], prev.args[2], prev.args[3])
           THEN LET cH == Min(HeaderCols(cells, prev.args[1]))
                IN  WroteOnlyAt(<<Min(ValueRows(cells, cH, prev.args[2])),
                                  Min(HeaderCols(cells, prev.args[3]))>>)
           ELSE /\ ~SecondUpdate.ret.x
                /\ SameValues(SecondUpdate.ws, cells, {})
                /\ SecondUpdate.dk = disk

\* headers in A1 and B1, the key in A3: the first update wrote B3; after
\* clear_row(2) the second writes B2 and leaves B3 empty
C25_Witness ==
    /\ ShiftedAfterUpdate
    /\ prev.args = <<A, B, B, A>>
    /\ FirstRow = 3 /\ FirstColumn = 2
    /\ call.op = "clear_row" /\ call.args[1] = IntRef(2)
    /\ ValueAt(call.pre, 3, 2) = A
    /\ ValueAt(cells, 2, 2) = A /\ ValueAt(cells, 3, 2) = NoneV
    /\ ValueAt(SecondUpdate.ws, 2, 2) = A
    /\ ValueAt(SecondUpdate.ws, 3, 2) = NoneV

\* headers in A1 and B1, the key in A2: after add_row(2, None) the key is in
\* row 3, and the second update writes B3 and leaves B2 empty
C25_WitnessAddRow ==
    /\ ShiftedAfterUpdate
    /\ prev.args = <<A, B, B, B>>
    /\ FirstRow = 2 /\ FirstColumn = 2
    /\ call.op = "add_row" /\ call.args = <<IntRef(2), NoneV>>
    /\ ValueAt(cells, 3, 1) = B /\ ValueAt(cells, 3, 2) = B
    /\ ValueAt(cells, 2, 2) = NoneV
    /\ MovedTo = <<3, 2>>
    /\ ValueAt(SecondUpdate.ws, 2, 2) = NoneV

\* headers in B1 and C1, the key in B2: after clear_column(1) the headers
\* are in A1 and B1, and the second update writes B2, where the key was
C25_WitnessClearColumn ==
    /\ ShiftedAfterUpdate
    /\ prev.args = <<A, B, B, A>>
    /\ FirstRow = 2 /\ FirstKeyColumn = 2 /\ FirstColumn = 3
    /\ call.op = "clear_column" /\ call.args[1] = IntRef(1)
    /\ ValueAt(cells, 2, 1) = B /\ ValueAt(cells, 2, 2) = A
    /\ MovedTo = <<2, 2>>
    /\ SecondUpdate.ret.x
    /\ ValueAt(SecondUpdate.ws, 2, 2) = A
    /\ ValueAt(SecondUpdate.ws, 2, 3) = NoneV

----------------------------------------------------------------------------
(* Two handlers on one file.  The second handler is constructed on the     *)
(* file right after the first, so it starts from the table the file holds; *)
(* each handler keeps its own worksheet and saves the whole of it.         *)

\* a call on the second handler running to completion
PeerCalled(op, args, r) ==
    /\ call.op = "idle"
    /\ DOMAIN r.ws \subseteq (1..TallRows) \X (1..MaxCol)
    /\ peer' = r.ws
    /\ disk' = r.dk
    /\ call' = [op |-> op, args |-> args, ret |-> r.ret, msg |-> r.msg,
                pre |-> peer, predisk |-> disk, end |-> "Returned"]
    /\ UNCHANGED <<cells, prev>>

\* ExcelHandler(filename) again for the second handler: it loads the file
PeerOpen ==
    /\ call.op = "idle"
    /\ peer # ExcelHandler(disk).ws
    /\ peer' = ExcelHandler(disk).ws
    /\ disk' = ExcelHandler(disk).dk
    /\ UNCHANGED <<cells, call, prev>>

AppendRow ==
    \E text \in Labels :
        Called(TallRows, MaxCol, "add_row", <<NextAvailable, text>>,
               add_row(cells, disk, NextAvailable, text))

PeerAppendRow ==
    \E text \in Labels :
        PeerCalled("peer.add_row", <<NextAvailable, text>>,
                   add_row(peer, disk, NextAvailable, text))

NextPeers ==
    \/ AppendRow
    \/ PeerAppendRow
    \/ Reopen
    \/ PeerOpen
    \/ ReturnKeeping({"add_row", "peer.add_row"})

SpecPeers == Init /\ [][NextPeers]_vars

----------------------------------------------------------------------------
(* Claims about two handlers, under SpecPeers *)

\* the last two calls were successful add_row("next_available", t) calls of
\* the two handlers, and resolved the same row
SameRowResolved ==
    /\ prev.op \in {"add_row", "peer.add_row"}
    /\ call.op \in {"add_row", "peer.add_row"}
    /\ prev.op # call.op
    /\ call.ret.k = "bool" /\ call.ret.x
    /\ get_actual_row_index(prev.pre, prev.args[1])
            = get_actual_row_index(call.pre, call.args[1])

\* the worksheet of the handler that made the call
SheetOf(c) == IF c.op = "add_row" THEN cells ELSE peer

\* C26: two handlers constructed on the same file each hold their own
\* table, and their calls are not isolated: both can resolve
\* "next_available" to the same row and both return success, and the file
\* then holds only the write of the handler that saved last, which is its
\* table before the call with its own text in that row, while the other
\* handler's text stays in that handler's memory.
C26_LastSaverWins ==
    SameRowResolved =>
        LET row == get_actual_row_index(call.pre, call.args[1])
        IN  /\ ValueAt(disk, row, 1) = call.args[2]
            /\ SameValues(disk, call.pre, {<<row, 1>>})
            /\ disk = Save(SheetOf(call))
            /\ ValueAt(SheetOf(prev), row, 1) = prev.args[2]
            /\ ValueAt(SheetOf(call), row, 1) = call.args[2]

\* both handlers hold "a" in row 2; the first appended "a", then the second
\* appended "b": both wrote row 3, and the file holds "b" there
C26_Witness ==
    /\ SameRowResolved
    /\ prev.op = "add_row" /\ call.op = "peer.add_row"
    /\ prev.args = <<NextAvailable, A>> /\ call.args = <<NextAvailable, B>>
    /\ ValueAt(prev.pre, 2, 1) = A /\ ValueAt(call.pre, 2, 1) = A
    /\ max_row(prev.pre) = 2 /\ max_row(call.pre) = 2
    /\ ValueAt(cells, 3, 1) = A
    /\ ValueAt(peer, 3, 1) = B
    /\ ValueAt(disk, 3, 1) = B

----------------------------------------------------------------------------
(* Claims about what reads leave behind, under Spec *)

ReadOps ==
    {"read_cell", "read_row", "read_column", "read_header_row",
     "get_column_index_by_header", "get_row_index_by_value"}

\* every value and the file are as the call found them
ValuesKept ==
    /\ SameValues(cells, call.pre, {})
    /\ disk = call.predisk

\* the maximum row, and with it the row add_row("next_available") resolves
MaxRowKept ==
    /\ max_row(cells) = max_row(call.pre)
    /\ get_actual_row_index(cells, NextAvailable)
            = get_actual_row_index(call.pre, NextAvailable)

\* C27: read_cell, read_row, read_column, read_header_row,
\* get_column_index_by_header and get_row_index_by_value leave every cell
\* value unchanged and leave the maximum row of the table unchanged, so a
\* following add_row("next_available") resolves the row it would have
\* resolved without the read.
C27_ReadsHaveNoEffect ==
    call.op \in ReadOps => ValuesKept /\ MaxRowKept

\* every read keeps the values and the file, and every read but read_cell
\* keeps the maximum row; read_cell keeps it for a row within it
C27_ReadsKeepValues ==
    call.op \in ReadOps =>
        /\ ValuesKept
        /\ call.op # "read_cell" => MaxRowKept
        /\ (call.op = "read_cell" /\ call.args[1].t = "int"
                /\ call.args[1].n <= max_row(call.pre)) => MaxRowKept

----------------------------------------------------------------------------
(* Claims about the header row, under SpecTall *)

\* row 1 holds the values it held before the call, but in the columns cs
HeaderRowKept(cs) ==
    \A p \in AllCoords : (p[1] = 1 /\ p[2] \notin cs) =>
        ValueAt(cells, 1, p[2]) = ValueAt(call.pre, 1, p[2])

\* C28: a successful update_cell_by_lookup never modifies the header row:
\* for every table and every argument tuple, a row_value that equals a
\* header label included, row 1 holds after the call the values it held
\* before it.
C28_HeaderRowKept ==
    Succeeded("update_cell_by_lookup") => HeaderRowKept({})

\* C28, amended: a successful update_cell_by_lookup resolves row 1 exactly
\* when row_value has the str() of row_header, the label in row 1 of the key
\* column; it then puts new_value in row 1 of the column headed col_header
\* and leaves the rest of row 1, and otherwise it leaves the whole of row 1.
\* So row 1 holds after the call the values it held before it exactly when
\* the resolved row is below row 1 or new_value is the value that row 1 held
\* in the column headed col_header.
C28_HeaderRowKeptBelowIt ==
    Succeeded("update_cell_by_lookup") =>
        LET cH == Min(HeaderCols(call.pre, call.args[1]))
            c == Min(HeaderCols(call.pre, call.args[3]))
            r == Min(ValueRows(call.pre, cH, call.args[2]))
        IN  /\ r = 1 <=> Str(call.args[2]) = Str(call.args[1])
            /\ IF r = 1
               THEN ValueAt(cells, 1, c) = call.args[4] /\ HeaderRowKept({c})
               ELSE HeaderRowKept({})
            /\ HeaderRowKept({}) <=>
                    (r > 1 \/ ValueAt(call.pre, 1, c) = call.args[4])

\* the row_value "b" is the label of the second column and not of the key
\* column: the update wrote row 2 and the headers are as they were
C28_Witness ==
    /\ Succeeded("update_cell_by_lookup")
    /\ call.args = <<A, B, B, A>>
    /\ ValueAt(call.pre, 1, 1) = A /\ ValueAt(call.pre, 1, 2) = B
    /\ ValueAt(call.pre, 2, 1) = B /\ ValueAt(call.pre, 2, 2) # A
    /\ ValueAt(cells, 2, 2) = A
    /\ ValueAt(cells, 1, 1) = A /\ ValueAt(cells, 1, 2) = B

\* the row_value "a" is the label of the key column: the update resolved
\* row 1 and replaced the header "b" by new_value, though row 2 holds "a" too
C28_WitnessHeaderReplaced ==
    /\ Succeeded("update_cell_by_lookup")
    /\ call.args = <<A, A, B, A>>
    /\ ValueAt(call.pre, 1, 1) = A /\ ValueAt(call.pre, 1, 2) = B
    /\ ValueAt(call.pre, 2, 1) = A
    /\ ValueAt(cells, 1, 2) = A
    /\ ValueAt(cells, 2, 2) = ValueAt(call.pre, 2, 2)

\* the row_value "a" is the label of the key column and new_value is the
\* label already there: the update resolved row 1 and row 1 is as it was
C28_WitnessSameLabel ==
    /\ Succeeded("update_cell_by_lookup")
    /\ call.args = <<A, A, A, A>>
    /\ ValueAt(call.pre, 1, 1) = A
    /\ Min(ValueRows(call.pre, 1, A)) = 1
    /\ \A p \in AllCoords : ValueAt(cells, p[1], p[2]) = ValueAt(call.pre, p[1], p[2])

----------------------------------------------------------------------------
(* Claims about the sentinel "next_available", under Spec *)

SentinelOps ==
    {"write_cell", "write_row", "clear_cell", "clear_row", "read_cell", "read_row"}

\* the envelope of the last call
EnvelopeOfCall ==
    LET a == call.args
    IN  CASE call.op = "write_cell" ->
                Env("excel_write_cell",
                    [DefaultArgs EXCEPT !.row_index = a[1], !.col_index = a[2],
                                        !.text = a[3]])
          [] call.op = "write_row" -> WriteRowEnvelope(a)
          [] call.op = "clear_cell" ->
                Env("excel_clear_cell",
                    [DefaultArgs EXCEPT !.row_index = a[1], !.col_index = a[2]])
          [] call.op = "clear_row" ->
                Env("excel_clear_row", [DefaultArgs EXCEPT !.row_index = a[1]])
          [] call.op = "read_cell" -> ReadCellEnvelope(a[1], a[2])
          [] call.op = "read_row" -> ReadRowEnvelope(a[1])

\* the call, made directly and through its envelope, reported failure and
\* left every value and the file as it found them
RefusedBothWays ==
    LET j == process_json_operation(call.pre, call.predisk, EnvelopeOfCall)
    IN  /\ IF call.ret.k = "bool" THEN ~call.ret.x ELSE call.ret.k = "none"
        /\ SameValues(cells, call.pre, {})
        /\ disk = call.predisk
        /\ j.reward = -1
        /\ SameValues(j.ws, call.pre, {})
        /\ j.dk = call.predisk

SentinelRow == call.op \in SentinelOps /\ call.args[1] = NextAvailable

\* write_row is handed a list or a mapping without elements
NoElements == call.op = "write_row" /\ call.args[2].k \in {"list", "dict"}
                  /\ Len(call.args[2].x) = 0

\* C29: "next_available" is a row index for add_row only: write_cell,
\* write_row, clear_cell, clear_row, read_cell and read_row, called directly
\* or through their envelopes with row_index "next_available", report
\* failure (reward -1) and leave the table unchanged.
C29_SentinelOnlyForAddRow ==
    SentinelRow => RefusedBothWays

\* the six operations refuse the sentinel whenever there is something to
\* write or read; write_row of no elements reports success, directly and
\* through its envelope, and writes no value
C29_SentinelRefusedButEmptyRow ==
    SentinelRow =>
        IF NoElements
        THEN /\ call.ret.x
             /\ process_json_operation(call.pre, call.predisk, EnvelopeOfCall).reward = 1
             /\ SameValues(cells, call.pre, {})
        ELSE RefusedBothWays

----------------------------------------------------------------------------
(* Claims about the row add_row appends, under SpecRows *)

\* the last row that holds a value, 0 for a table that holds none
LastValueRow(ws) == Max({0} \cup {p[1] : p \in Populated(ws)})

Appended == Succeeded("add_row") /\ call.args[1] = NextAvailable

\* C30: add_row("next_available", t) leaves no empty row between the data
\* and the new row: on a table whose last row holding a value is n (n = 0
\* for a brand-new or just-cleared table), t is written at (n+1, 1).
C30_AppendsAfterLastValue ==
    Appended =>
        /\ ValueAt(cells, LastValueRow(call.pre) + 1, 1) = call.args[2]
        /\ SameValues(cells, call.pre, {<<LastValueRow(call.pre) + 1, 1>>})

\* t is written below the maximum row of the worksheet, which is the row
\* after the last value exactly when the last row that has a cell holds a
\* value; on a worksheet without cells it is row 2
C30_AppendsAfterMaxRow ==
    Appended =>
        /\ ValueAt(cells, max_row(call.pre) + 1, 1) = call.args[2]
        /\ SameValues(cells, call.pre, {<<max_row(call.pre) + 1, 1>>})
        /\ max_row(call.pre) >= LastValueRow(call.pre)
        /\ call.pre = EmptySheet => max_row(call.pre) + 1 = 2
====
